---- MODULE Spec2Model ----
(***************************************************************************)
(* Exchange-rate fetching of WYGIWYH (apps/currencies): the schedule       *)
(* evaluation of ExchangeRateFetcher, the hour-range parser and the        *)
(* validation of ExchangeRateService, the transitive-rate graph search,    *)
(* the per-service fetch cycle, concurrent calls of it and repeated runs   *)
(* of a transitive service.                                                *)
(*                                                                         *)
(* Strings are sequences of one-character strings.  An operation that can  *)
(* raise returns a record whose field "raised" names the exception         *)
(* ("none" when it returned normally).                                     *)
(***************************************************************************)
EXTENDS Integers, Sequences, FiniteSets, TLC

VARIABLES
    interval_str,   \* argument handed to _parse_hour_ranges
    parsed,         \* what _parse_hour_ranges did with it, NotRun before the call
    cleaned,        \* what ExchangeRateService.clean did, NotCleaned before the call
    service,        \* the ExchangeRateService handed to _should_fetch_at_hour
    now,            \* timezone.now(), in seconds
    should_fetch,   \* what _should_fetch_at_hour did, NotEvaluated before the call
    exchange_currency,  \* Currency.exchange_currency of every Currency id
    rates,          \* the ExchangeRate table, in the order its rows are read
    found,          \* the last call of _find_conversion_path and what it returned
    results,        \* the last call of TransitiveRateProvider.get_rates and its list
    services,       \* the ExchangeRateService table, by id
    run,            \* where the running fetch_due_rates stands
    log,            \* what the run has logged of each service
    workers         \* where each of the concurrent calls of _fetch_service_rates stands

parse_vars == <<interval_str, parsed, cleaned>>

sched_vars == <<service, should_fetch>>

graph_vars == <<exchange_currency, rates, found, results>>

run_vars == <<services, run, log, workers>>

vars == <<interval_str, parsed, cleaned, service, now, should_fetch,
          exchange_currency, rates, found, results, services, run, log,
          workers>>

\* ------------------------------------------------------------------ bounds

\* Longest fetch_interval string typed into the parser.
MaxLen == 5

\* Longest fetch_interval of the service whose schedule is evaluated.
MaxIntervalLen == 3

\* The clock runs from 0 to MaxHours hours.
MaxHours == 3

\* Most rows of the ExchangeRate table.
MaxRates == 3

\* Significant digits of the decimal context (Python's default context keeps
\* 28; the arithmetic below is the same with fewer).
DecPrec == 3

\* Calls of fetch_due_rates the worker makes.
MaxRuns == 2

\* Characters a fetch_interval is typed from: hour digits, the range and list
\* separators, white space and one character that is none of these.
Chars == {"1", "3", "5", "-", ",", " ", "x"}

\* ------------------------------------------------------- Python primitives

\* last_fetch is null before the first fetch; every time is >= 0.
None == 0 - 1

NotRun == [raised |-> "notrun", hours |-> {}]

Digits == {"0", "1", "2", "3", "4", "5", "6", "7", "8", "9"}

DigitVal(c) ==
    CASE c = "0" -> 0 [] c = "1" -> 1 [] c = "2" -> 2 [] c = "3" -> 3
      [] c = "4" -> 4 [] c = "5" -> 5 [] c = "6" -> 6 [] c = "7" -> 7
      [] c = "8" -> 8 [] c = "9" -> 9

Chr(s) == {s[i] : i \in 1..Len(s)}

RECURSIVE Pow10(_)
Pow10(n) == IF n = 0 THEN 1 ELSE 10 * Pow10(n - 1)

RECURSIVE LStrip(_)
\* str.lstrip(): leading white space removed.
LStrip(s) == IF s # <<>> /\ Head(s) = " " THEN LStrip(Tail(s)) ELSE s

RECURSIVE RStrip(_)
\* str.rstrip(): trailing white space removed.
RStrip(s) ==
    IF s # <<>> /\ s[Len(s)] = " " THEN RStrip(SubSeq(s, 1, Len(s) - 1)) ELSE s

\* str.strip()
Strip(s) == RStrip(LStrip(s))

RECURSIVE SplitFrom(_, _, _)
\* str.split(sep) continued: cur is the piece being read.
SplitFrom(s, sep, cur) ==
    IF s = <<>> THEN <<cur>>
    ELSE IF Head(s) = sep THEN <<cur>> \o SplitFrom(Tail(s), sep, <<>>)
    ELSE SplitFrom(Tail(s), sep, Append(cur, Head(s)))

\* str.split(sep) for a one-character sep: always at least one piece, and an
\* empty piece wherever two separators meet or the string starts or ends with one.
Split(s, sep) == SplitFrom(s, sep, <<>>)

RECURSIVE DecimalValue(_)
\* The number a non-empty string of digits denotes.
DecimalValue(s) ==
    IF Len(s) = 1 THEN DigitVal(s[1])
    ELSE 10 * DecimalValue(SubSeq(s, 1, Len(s) - 1)) + DigitVal(s[Len(s)])

\* int(s) of a str: white space around the literal is dropped, one leading
\* sign is accepted, the rest must be digits; anything else is a ValueError.
PyInt(s) ==
    LET t == Strip(s)
        neg == t # <<>> /\ Head(t) = "-"
        signed == t # <<>> /\ Head(t) \in {"-", "+"}
        body == IF signed THEN Tail(t) ELSE t
    IN  IF body = <<>> \/ ~(Chr(body) \subseteq Digits)
        THEN [raised |-> "ValueError", val |-> 0]
        ELSE [raised |-> "none",
              val |-> IF neg THEN 0 - DecimalValue(body) ELSE DecimalValue(body)]

\* ------------------------------------ ExchangeRateService._parse_hour_ranges

ValueError == [raised |-> "ValueError", hours |-> {}]

\* ParsePart with the range read as Python's range(start, end): the end hour
\* left out.
ParsePart_EndExcluded(raw) ==
    LET part == Strip(raw) IN
    IF "-" \in Chr(part)
    THEN LET pieces == Split(part, "-") IN
         IF Len(pieces) # 2 THEN ValueError
         ELSE LET start == PyInt(pieces[1])
                  end == PyInt(pieces[2])
              IN  IF start.raised # "none" \/ end.raised # "none" THEN ValueError
                  ELSE IF ~(0 <= start.val /\ start.val <= 23
                            /\ 0 <= end.val /\ end.val <= 23) THEN ValueError
                  ELSE IF start.val > end.val THEN ValueError
                  ELSE [raised |-> "none", hours |-> start.val..(end.val - 1)]
    ELSE LET hour == PyInt(part) IN
         IF hour.raised # "none" THEN ValueError
         ELSE IF ~(0 <= hour.val /\ hour.val <= 23) THEN ValueError
         ELSE [raised |-> "none", hours |-> {hour.val}]

\* ParsePart without the start > end check: a reversed range adds no hour and
\* raises nothing.
ParsePart_NoOrderCheck(raw) ==
    LET part == Strip(raw) IN
    IF "-" \in Chr(part)
    THEN LET pieces == Split(part, "-") IN
         IF Len(pieces) # 2 THEN ValueError
         ELSE LET start == PyInt(pieces[1])
                  end == PyInt(pieces[2])
              IN  IF start.raised # "none" \/ end.raised # "none" THEN ValueError
                  ELSE IF ~(0 <= start.val /\ start.val <= 23
                            /\ 0 <= end.val /\ end.val <= 23) THEN ValueError
                  ELSE [raised |-> "none", hours |-> start.val..end.val]
    ELSE LET hour == PyInt(part) IN
         IF hour.raised # "none" THEN ValueError
         ELSE IF ~(0 <= hour.val /\ hour.val <= 23) THEN ValueError
         ELSE [raised |-> "none", hours |-> {hour.val}]

\* One comma-separated part of the loop body of _parse_hour_ranges: the hours
\* the part adds, or the ValueError it raises.
ParsePart(raw) ==
    LET part == Strip(raw) IN
    IF "-" \in Chr(part)
    THEN LET pieces == Split(part, "-") IN
         IF Len(pieces) # 2 THEN ValueError      \* start, end = ... cannot unpack
         ELSE LET start == PyInt(pieces[1])
                  end == PyInt(pieces[2])
              IN  IF start.raised # "none" \/ end.raised # "none" THEN ValueError
                  ELSE IF ~(0 <= start.val /\ start.val <= 23
                            /\ 0 <= end.val /\ end.val <= 23) THEN ValueError
                  ELSE IF start.val > end.val THEN ValueError
                  ELSE [raised |-> "none", hours |-> start.val..end.val]
    ELSE LET hour == PyInt(part) IN
         IF hour.raised # "none" THEN ValueError
         ELSE IF ~(0 <= hour.val /\ hour.val <= 23) THEN ValueError
         ELSE [raised |-> "none", hours |-> {hour.val}]

RECURSIVE ParseParts(_, _)
\* The for loop of _parse_hour_ranges over the parts still to read, hours being
\* the set built so far; the first part that raises ends the loop.
ParseParts(parts, hours) ==
    IF parts = <<>> THEN [raised |-> "none", hours |-> hours]
    ELSE LET r == ParsePart(Head(parts)) IN
         IF r.raised # "none" THEN ValueError
         ELSE ParseParts(Tail(parts), hours \cup r.hours)

_parse_hour_ranges(s) == ParseParts(Split(Strip(s), ","), {})

\* ---------------------------------------------- ExchangeRateService.clean

\* The character str() writes for a digit.
DigitChr(d) == CHOOSE c \in Digits : DigitVal(c) = d

RECURSIVE Str(_)
\* str(n) of an int n >= 0.
Str(n) == IF n < 10 THEN <<DigitChr(n)>> ELSE Append(Str(n \div 10), DigitChr(n % 10))

RECURSIVE Join(_)
\* ",".join(str(h) for h in sorted(hours))
Join(hours) ==
    IF hours = {} THEN <<>>
    ELSE LET h == CHOOSE x \in hours : \A y \in hours : x <= y
         IN  IF hours = {h} THEN Str(h) ELSE Str(h) \o <<",">> \o Join(hours \ {h})

\* str.isdigit(): at least one character, and every character a digit.
IsDigit(s) == s # <<>> /\ Chr(s) \subseteq Digits

ValidationError(s) == [raised |-> "ValidationError", fetch_interval |-> s]

NotCleaned == [raised |-> "notrun", fetch_interval |-> <<>>]

\* clean with the test of the hours in EVERY mode left out.
Clean_EveryUnbounded(interval_type, fetch_interval) ==
    IF interval_type = "every"
    THEN IF ~IsDigit(fetch_interval) THEN ValidationError(fetch_interval)
         ELSE [raised |-> "none", fetch_interval |-> fetch_interval]
    ELSE LET r == _parse_hour_ranges(fetch_interval)
         IN  IF r.raised # "none" THEN ValidationError(fetch_interval)
             ELSE [raised |-> "none", fetch_interval |-> Join(r.hours)]

\* clean() of a service with this interval_type and fetch_interval: a
\* ValidationError, or a normal return with the fetch_interval the service
\* carries afterwards (the hours of ON and NOT_ON are rewritten in order).
clean(interval_type, fetch_interval) ==
    IF interval_type = "every"
    THEN IF ~IsDigit(fetch_interval) THEN ValidationError(fetch_interval)
         ELSE LET hours == PyInt(fetch_interval)
              IN  IF hours.raised # "none" THEN ValidationError(fetch_interval)
                  ELSE IF hours.val < 1 \/ hours.val > 24
                       THEN ValidationError(fetch_interval)
                       ELSE [raised |-> "none", fetch_interval |-> fetch_interval]
    ELSE LET r == _parse_hour_ranges(fetch_interval)
         IN  IF r.raised # "none" THEN ValidationError(fetch_interval)
             ELSE [raised |-> "none", fetch_interval |-> Join(r.hours)]

\* ------------------------------------- hour specifications, read as a grammar

RECURSIVE PlaceSum(_, _)
\* Sum over the positions 1..i of digit string u of digit * 10^(distance to the end).
PlaceSum(u, i) ==
    IF i = 0 THEN 0 ELSE DigitVal(u[i]) * Pow10(Len(u) - i) + PlaceSum(u, i - 1)

\* t is an unsigned integer literal, white space around it allowed.
IsNumeral(t) ==
    \E a, b \in 1..Len(t) :
        /\ a <= b
        /\ \A i \in 1..Len(t) : IF a <= i /\ i <= b THEN t[i] \in Digits ELSE t[i] = " "

NumeralValue(t) ==
    LET ds == SelectSeq(t, LAMBDA c : c \in Digits) IN PlaceSum(ds, Len(ds))

\* The positions k at which t reads as "numeral - numeral".
RangeCuts(t) ==
    {k \in 1..Len(t) :
        /\ t[k] = "-"
        /\ IsNumeral(SubSeq(t, 1, k - 1))
        /\ IsNumeral(SubSeq(t, k + 1, Len(t)))}

\* The hours a token denotes: h for an integer h in 0..23, s..e for a range s-e
\* with 0 <= s <= e <= 23, and nothing for any other token.
TokenHours(t) ==
    {h \in 0..23 :
        \/ IsNumeral(t) /\ NumeralValue(t) = h
        \/ \E k \in RangeCuts(t) :
              LET s == NumeralValue(SubSeq(t, 1, k - 1))
                  e == NumeralValue(SubSeq(t, k + 1, Len(t)))
              IN  s <= h /\ h <= e /\ e <= 23}

WellFormedToken(t) ==
    \/ IsNumeral(t) /\ NumeralValue(t) <= 23
    \/ \E k \in RangeCuts(t) :
          NumeralValue(SubSeq(t, 1, k - 1)) <= NumeralValue(SubSeq(t, k + 1, Len(t)))
          /\ NumeralValue(SubSeq(t, k + 1, Len(t))) <= 23

\* The comma-separated tokens of s: the stretches between two neighbouring
\* commas (or an end of the string).
TokensOf(s) ==
    LET cuts == {0, Len(s) + 1} \cup {i \in 1..Len(s) : s[i] = ","} IN
    {SubSeq(s, a + 1, b - 1) : <<a, b>> \in
        {p \in cuts \X cuts :
            p[1] < p[2] /\ ~(\E c \in cuts : p[1] < c /\ c < p[2])}}

WellFormedHours(s) == \A t \in TokensOf(s) : WellFormedToken(t)

\* --------------------------------------------------------------- C7, C8

\* C7: for every well-formed hour specification _parse_hour_ranges returns
\* exactly the union of the hours its tokens denote, and whatever set it
\* returns holds hours of 0..23 only.
C7_ParseReturnsUnionOfTokens ==
    parsed # NotRun =>
        /\ WellFormedHours(interval_str) =>
              /\ parsed.raised = "none"
              /\ parsed.hours = UNION {TokenHours(t) : t \in TokensOf(interval_str)}
        /\ parsed.raised = "none" => parsed.hours \subseteq 0..23

\* "1-3,5" has been parsed to {1,2,3,5}.
C7_Witness ==
    /\ interval_str = <<"1", "-", "3", ",", "5">>
    /\ parsed = [raised |-> "none", hours |-> {1, 2, 3, 5}]

\* C8: _parse_hour_ranges raises (and returns no set) whenever some token is
\* not an integer of 0..23 or a range s-e with 0 <= s <= e <= 23: an hour out
\* of bounds, a reversed range, an unparseable or an empty token.
C8_ParseRejectsIllFormed ==
    (parsed # NotRun /\ ~WellFormedHours(interval_str)) => parsed = ValueError

\* The reversed range "5-3" has been rejected.
C8_Witness ==
    /\ interval_str = <<"5", "-", "3">>
    /\ parsed = ValueError

\* ------------------------------ ExchangeRateFetcher._should_fetch_at_hour

\* ExchangeRateService.IntervalType
IntervalTypes == {"on", "every", "not_on"}

SecondsPerHour == 3600

NotEvaluated == [raised |-> "notrun", value |-> FALSE]

Returns(b) == [raised |-> "none", value |-> b]

\* datetime.replace(minute=0, second=0, microsecond=0)
TruncateToHour(t) == t - (t % SecondsPerHour)

\* _should_fetch_at_hour that lets the parser's ValueError escape.
ShouldFetch_NoOuterExcept(svc, current_hour, t) ==
    IF svc.interval_type \in {"on", "not_on"}
       /\ _parse_hour_ranges(svc.fetch_interval).raised # "none"
    THEN [raised |-> "ValueError", value |-> FALSE]
    ELSE IF svc.interval_type = "not_on"
    THEN Returns(current_hour \notin _parse_hour_ranges(svc.fetch_interval).hours)
    ELSE IF svc.interval_type = "on"
    THEN Returns(current_hour \in _parse_hour_ranges(svc.fetch_interval).hours)
    ELSE IF svc.interval_type = "every"
    THEN LET interval_hours == PyInt(svc.fetch_interval) IN
         IF interval_hours.raised # "none" THEN Returns(FALSE)
         ELSE IF svc.last_fetch = None THEN Returns(TRUE)
         ELSE Returns((TruncateToHour(t) - TruncateToHour(svc.last_fetch))
                          \div SecondsPerHour >= interval_hours.val)
    ELSE Returns(FALSE)

\* _should_fetch_at_hour with NOT_ON testing membership as ON does.
ShouldFetch_NotOnAsOn(svc, current_hour, t) ==
    IF svc.interval_type \in {"on", "not_on"}
    THEN LET hours == _parse_hour_ranges(svc.fetch_interval) IN
         IF hours.raised # "none" THEN Returns(FALSE)
         ELSE Returns(current_hour \in hours.hours)
    ELSE IF svc.interval_type = "every"
    THEN LET interval_hours == PyInt(svc.fetch_interval) IN
         IF interval_hours.raised # "none" THEN Returns(FALSE)
         ELSE IF svc.last_fetch = None THEN Returns(TRUE)
         ELSE Returns((TruncateToHour(t) - TruncateToHour(svc.last_fetch))
                          \div SecondsPerHour >= interval_hours.val)
    ELSE Returns(FALSE)

\* _should_fetch_at_hour comparing the raw times, not rounded down to the hour.
ShouldFetch_NoTruncation(svc, current_hour, t) ==
    IF svc.interval_type = "not_on"
    THEN LET blocked_hours == _parse_hour_ranges(svc.fetch_interval) IN
         IF blocked_hours.raised # "none" THEN Returns(FALSE)
         ELSE Returns(current_hour \notin blocked_hours.hours)
    ELSE IF svc.interval_type = "on"
    THEN LET allowed_hours == _parse_hour_ranges(svc.fetch_interval) IN
         IF allowed_hours.raised # "none" THEN Returns(FALSE)
         ELSE Returns(current_hour \in allowed_hours.hours)
    ELSE IF svc.interval_type = "every"
    THEN LET interval_hours == PyInt(svc.fetch_interval) IN
         IF interval_hours.raised # "none" THEN Returns(FALSE)
         ELSE IF svc.last_fetch = None THEN Returns(TRUE)
         ELSE Returns(t - svc.last_fetch >= interval_hours.val * SecondsPerHour)
    ELSE Returns(FALSE)

\* _should_fetch_at_hour testing last_fetch before it reads the interval.
ShouldFetch_FirstRunFirst(svc, current_hour, t) ==
    IF svc.interval_type = "not_on"
    THEN LET blocked_hours == _parse_hour_ranges(svc.fetch_interval) IN
         IF blocked_hours.raised # "none" THEN Returns(FALSE)
         ELSE Returns(current_hour \notin blocked_hours.hours)
    ELSE IF svc.interval_type = "on"
    THEN LET allowed_hours == _parse_hour_ranges(svc.fetch_interval) IN
         IF allowed_hours.raised # "none" THEN Returns(FALSE)
         ELSE Returns(current_hour \in allowed_hours.hours)
    ELSE IF svc.interval_type = "every"
    THEN LET interval_hours == PyInt(svc.fetch_interval) IN
         IF svc.last_fetch = None THEN Returns(TRUE)
         ELSE IF interval_hours.raised # "none" THEN Returns(FALSE)
         ELSE Returns((TruncateToHour(t) - TruncateToHour(svc.last_fetch))
                          \div SecondsPerHour >= interval_hours.val)
    ELSE Returns(FALSE)

\* _should_fetch_at_hour(service, current_hour), t being what timezone.now()
\* returns inside it.  A ValueError of the parser is caught by the outer
\* except, one of int() by the inner except: both return False.
_should_fetch_at_hour(svc, current_hour, t) ==
    IF svc.interval_type = "not_on"
    THEN LET blocked_hours == _parse_hour_ranges(svc.fetch_interval) IN
         IF blocked_hours.raised # "none" THEN Returns(FALSE)
         ELSE Returns(current_hour \notin blocked_hours.hours)
    ELSE IF svc.interval_type = "on"
    THEN LET allowed_hours == _parse_hour_ranges(svc.fetch_interval) IN
         IF allowed_hours.raised # "none" THEN Returns(FALSE)
         ELSE Returns(current_hour \in allowed_hours.hours)
    ELSE IF svc.interval_type = "every"
    THEN LET interval_hours == PyInt(svc.fetch_interval) IN
         IF interval_hours.raised # "none" THEN Returns(FALSE)
         ELSE IF svc.last_fetch = None THEN Returns(TRUE)
         ELSE Returns((TruncateToHour(t) - TruncateToHour(svc.last_fetch))
                          \div SecondsPerHour >= interval_hours.val)
    ELSE Returns(FALSE)

\* current_time.hour of fetch_due_rates, the server's zone taken as UTC.
HourOfDay(t) == (t \div SecondsPerHour) % 24

\* ----------------------------------------------------- decimal.Decimal

\* A Decimal is coefficient c times ten to the e, kept without trailing zeros
\* in c, so that equal numbers are equal records.
Dec(c, e) == [c |-> c, e |-> e]

\* The rate of "no path": Python's None where a Decimal is expected.
NoneRate == Dec(0 - 1, 0)

One == Dec(1, 0)

RECURSIVE NumDigits(_)
NumDigits(n) == IF n < 10 THEN 1 ELSE 1 + NumDigits(n \div 10)

RECURSIVE DecNormalize(_, _)
DecNormalize(c, e) ==
    IF c = 0 THEN Dec(0, 0)
    ELSE IF c % 10 = 0 THEN DecNormalize(c \div 10, e + 1)
    ELSE Dec(c, e)

\* The context's rounding (ROUND_HALF_EVEN) of c * 10^e to DecPrec significant
\* digits; inexact says that digits beyond c were already dropped.
DecRound(c, e, inexact) ==
    LET d == NumDigits(c) - DecPrec IN
    IF d <= 0 THEN DecNormalize(c, e)
    ELSE LET q == c \div Pow10(d)
             r == c % Pow10(d)
             half == 5 * Pow10(d - 1)
             up == \/ r > half
                   \/ r = half /\ inexact
                   \/ r = half /\ q % 2 = 1
         IN  DecNormalize(IF up THEN q + 1 ELSE q, e + d)

\* Decimal * Decimal
DecMul(a, b) == DecRound(a.c * b.c, a.e + b.e, FALSE)

\* Decimal("1") / r: the quotient to DecPrec significant digits, or the
\* DivisionByZero the context raises for r = 0.
Reciprocal(r) ==
    IF r.c = 0 THEN [raised |-> "DivisionByZero", val |-> NoneRate]
    ELSE LET k == DecPrec + NumDigits(r.c)
             q == Pow10(k) \div r.c
             rem == Pow10(k) % r.c
         IN  [raised |-> "none", val |-> DecRound(q, 0 - k - r.e, rem > 0)]

\* ----------------------------------------------- TransitiveRateProvider

\* Currency ids.
Currencies == {1, 2, 3, 4}

\* d[k] = v on a dict kept as the sequence of its items: a key already there
\* keeps its place, a new key goes last.
DictSet(d, k, v) ==
    IF \E i \in 1..Len(d) : d[i][1] = k
    THEN [i \in 1..Len(d) |-> IF d[i][1] = k THEN <<k, v>> ELSE d[i]]
    ELSE Append(d, <<k, v>>)

\* The graph: a function from the node ids that are keys of the outer dict to
\* the inner dict of each, a sequence of <<neighbour, weight>> items.
EmptyGraph == <<>>

\* SetEdge leaving an edge that is already there as it is.
SetEdge_KeepFirst(graph, a, b, w) ==
    LET g == IF a \in DOMAIN graph THEN graph ELSE graph @@ (a :> <<>>) IN
    IF \E i \in 1..Len(g[a]) : g[a][i][1] = b THEN g
    ELSE [g EXCEPT ![a] = DictSet(@, b, w)]

\* if a not in graph: graph[a] = {};  graph[a][b] = w
SetEdge(graph, a, b, w) ==
    LET g == IF a \in DOMAIN graph THEN graph ELSE graph @@ (a :> <<>>) IN
    [g EXCEPT ![a] = DictSet(@, b, w)]

RECURSIVE BuildFrom_ForwardOnly(_, _)
\* As BuildFrom, but only the edge from from_currency to to_currency is set.
BuildFrom_ForwardOnly(rows, graph) ==
    IF rows = <<>> THEN [raised |-> "none", graph |-> graph]
    ELSE LET rate == Head(rows)
             inverse == Reciprocal(rate.rate)
         IN  IF inverse.raised # "none"
             THEN [raised |-> inverse.raised, graph |-> EmptyGraph]
             ELSE BuildFrom_ForwardOnly(Tail(rows),
                      SetEdge(graph, rate.from_currency, rate.to_currency,
                              rate.rate))

RECURSIVE BuildFrom(_, _)
\* The for loop of _build_currency_graph over the rows still to read.
BuildFrom(rows, graph) ==
    IF rows = <<>> THEN [raised |-> "none", graph |-> graph]
    ELSE LET rate == Head(rows)
             inverse == Reciprocal(rate.rate)
         IN  IF inverse.raised # "none"
             THEN [raised |-> inverse.raised, graph |-> EmptyGraph]
             ELSE BuildFrom(Tail(rows),
                      SetEdge(SetEdge(graph, rate.from_currency, rate.to_currency,
                                      rate.rate),
                              rate.to_currency, rate.from_currency, inverse.val))

_build_currency_graph(rows) == BuildFrom(rows, EmptyGraph)

\* return None, None
NoPath == [raised |-> "none", path |-> <<>>, rate |-> NoneRate]

\* graph.get(current, {}).items()
Items(graph, current) == IF current \in DOMAIN graph THEN graph[current] ELSE <<>>

RECURSIVE Expand_MarkPopped(_, _, _, _)
\* The inner for loop with the mark moved: a node is marked when it is popped,
\* not when it is enqueued, so a node two popped nodes lead to is enqueued by
\* both.
Expand_MarkPopped(items, entry, queue, visited) ==
    IF items = <<>>
    THEN [queue |-> queue, visited |-> visited \cup {entry.node}]
    ELSE LET neighbor == Head(items)[1]
             rate == Head(items)[2]
         IN  IF neighbor \notin visited \cup {entry.node}
             THEN Expand_MarkPopped(Tail(items), entry,
                         Append(queue, [node |-> neighbor,
                                        path |-> Append(entry.path, neighbor),
                                        rate |-> DecMul(entry.rate, rate)]),
                         visited)
             ELSE Expand_MarkPopped(Tail(items), entry, queue, visited)

RECURSIVE Expand(_, _, _, _)
\* The inner for loop of _find_conversion_path over the items still to read of
\* the node just popped (entry): unvisited neighbours are marked and enqueued.
Expand(items, entry, queue, visited) ==
    IF items = <<>> THEN [queue |-> queue, visited |-> visited]
    ELSE LET neighbor == Head(items)[1]
             rate == Head(items)[2]
         IN  IF neighbor \notin visited
             THEN Expand(Tail(items), entry,
                         Append(queue, [node |-> neighbor,
                                        path |-> Append(entry.path, neighbor),
                                        rate |-> DecMul(entry.rate, rate)]),
                         visited \cup {neighbor})
             ELSE Expand(Tail(items), entry, queue, visited)

RECURSIVE Search_DepthFirst(_, _, _, _)
\* The while loop as a depth-first search: a node is marked when it is popped
\* and its unvisited neighbours go to the front of the queue.
Search_DepthFirst(graph, to_id, queue, visited) ==
    IF queue = <<>> THEN NoPath
    ELSE LET entry == Head(queue)
             seen == visited \cup {entry.node}
             items == SelectSeq(Items(graph, entry.node), LAMBDA it : it[1] \notin seen)
             pushed == [i \in 1..Len(items) |->
                           [node |-> items[i][1],
                            path |-> Append(entry.path, items[i][1]),
                            rate |-> DecMul(entry.rate, items[i][2])]]
         IN  IF entry.node = to_id
             THEN [raised |-> "none", path |-> entry.path, rate |-> entry.rate]
             ELSE Search_DepthFirst(graph, to_id, pushed \o Tail(queue), seen)

RECURSIVE Search(_, _, _, _)
\* The while loop of _find_conversion_path.
Search(graph, to_id, queue, visited) ==
    IF queue = <<>> THEN NoPath
    ELSE LET entry == Head(queue) IN
         IF entry.node = to_id
         THEN [raised |-> "none", path |-> entry.path, rate |-> entry.rate]
         ELSE LET next == Expand(Items(graph, entry.node), entry, Tail(queue), visited)
              IN  Search(graph, to_id, next.queue, next.visited)

\* _find_conversion_path without its first test: the search starts even when
\* an endpoint is no key of the graph.
FindPath_NoMembershipTest(graph, from_id, to_id) ==
    Search(graph, to_id,
           <<[node |-> from_id, path |-> <<from_id>>, rate |-> One]>>,
           {from_id})

_find_conversion_path(graph, from_id, to_id) ==
    IF from_id \notin DOMAIN graph \/ to_id \notin DOMAIN graph THEN NoPath
    ELSE Search(graph, to_id,
                <<[node |-> from_id, path |-> <<from_id>>, rate |-> One]>>,
                {from_id})

RECURSIVE Loop(_, _, _, _)
\* The while loop of _find_conversion_path as it runs: the nodes of the
\* entries queue.append adds, in order, and the number of queue.pop(0) calls.
Loop(graph, to_id, queue, visited) ==
    IF queue = <<>> THEN [enqueued |-> <<>>, iterations |-> 0]
    ELSE LET entry == Head(queue) IN
         IF entry.node = to_id THEN [enqueued |-> <<>>, iterations |-> 1]
         ELSE LET next == Expand(Items(graph, entry.node), entry, Tail(queue), visited)
                  added == SubSeq(next.queue, Len(queue), Len(next.queue))
                  rest == Loop(graph, to_id, next.queue, next.visited)
              IN  [enqueued |-> [i \in 1..Len(added) |-> added[i].node]
                                    \o rest.enqueued,
                   iterations |-> 1 + rest.iterations]

\* A call of _find_conversion_path as it runs: the first entry of the queue
\* is the source's, and the loop is not entered when an endpoint is no key of
\* the graph.
Enqueues(graph, from_id, to_id) ==
    IF from_id \notin DOMAIN graph \/ to_id \notin DOMAIN graph
    THEN [enqueued |-> <<>>, iterations |-> 0]
    ELSE LET rest == Loop(graph, to_id,
                          <<[node |-> from_id, path |-> <<from_id>>, rate |-> One]>>,
                          {from_id})
         IN  [enqueued |-> <<from_id>> \o rest.enqueued,
              iterations |-> rest.iterations]

RECURSIVE InIdOrder(_)
\* A queryset of currencies as the loop reads it, by id.
InIdOrder(S) ==
    IF S = {} THEN <<>>
    ELSE LET m == CHOOSE x \in S : \A y \in S : x <= y IN <<m>> \o InIdOrder(S \ {m})

RECURSIVE RatesLoop(_, _, _, _, _)
\* The for loop of get_rates over the targets still to read; a result is the
\* triple <<target.exchange_currency, target, rate>>.
RatesLoop(targets, exchange_currencies, exch, graph, out) ==
    IF targets = <<>> THEN out
    ELSE LET target == Head(targets) IN
         IF exch[target] = None \/ exch[target] \notin exchange_currencies
         THEN RatesLoop(Tail(targets), exchange_currencies, exch, graph, out)
         ELSE LET r == _find_conversion_path(graph, exch[target], target) IN
              IF r.path # <<>> /\ r.rate # NoneRate /\ r.rate.c # 0
              THEN RatesLoop(Tail(targets), exchange_currencies, exch, graph,
                             Append(out, <<exch[target], target, r.rate>>))
              ELSE RatesLoop(Tail(targets), exchange_currencies, exch, graph, out)

\* TransitiveRateProvider.get_rates over the rows of the ExchangeRate table and
\* the Currency table exch.
get_rates(target_currencies, exchange_currencies, rows, exch) ==
    LET built == _build_currency_graph(rows) IN
    IF built.raised # "none" THEN [raised |-> built.raised, results |-> <<>>]
    ELSE [raised |-> "none",
          results |-> RatesLoop(InIdOrder(target_currencies), exchange_currencies,
                                exch, built.graph, <<>>)]

NotSearched == [from_id |-> 0, to_id |-> 0, ret |-> [raised |-> "notrun"]]

NotFetched == [targets |-> {}, ret |-> [raised |-> "notrun"]]

\* ------------------------------------------------- ExchangeRateFetcher

\* ExchangeRateService ids; the queryset of fetch_due_rates reads them in
\* this order (Meta.ordering is the name).
ServiceIds == {1, 2}

\* ExchangeRateService.ServiceType
ServiceType == {"coingecko_free", "coingecko_pro", "pictet", "transitive",
                "frankfurter", "twelvedata", "twelvedatamarkets"}

\* The keys of PROVIDER_MAPPING.
PROVIDER_MAPPING == {"coingecko_free", "coingecko_pro", "transitive",
                     "frankfurter", "twelvedata", "twelvedatamarkets"}

\* As requires_api_key, but no provider asks for a key.
requires_api_key_Never(service_type) == FALSE

\* provider.requires_api_key(), by service type.
requires_api_key(service_type) ==
    service_type \in {"coingecko_free", "coingecko_pro", "twelvedata",
                      "twelvedatamarkets"}

\* provider.rates_inverted, by service type.
rates_inverted(service_type) ==
    service_type \in {"coingecko_free", "coingecko_pro", "pictet", "transitive",
                      "twelvedatamarkets"}

\* service.get_provider(): PROVIDER_MAPPING[self.service_type], a KeyError for
\* a type that is no key of the mapping.
get_provider(svc) ==
    IF svc.service_type \in PROVIDER_MAPPING
    THEN [raised |-> "none", provider |-> svc.service_type]
    ELSE [raised |-> "KeyError", provider |-> svc.service_type]

\* As _get_unique_currency_pairs, but without the tests that a currency or an
\* account has an exchange currency.
UniquePairs_Unfiltered(svc, exch) ==
    LET target_currencies ==
            svc.target_currencies \cup {a[1] : a \in svc.target_accounts}
    IN  [target_currencies |-> target_currencies,
         exchange_currencies |->
             {exch[c] : c \in target_currencies}
                 \cup {a[2] : a \in svc.target_accounts}]

\* _get_unique_currency_pairs(service): an account is a pair
\* <<currency, exchange_currency>>.
_get_unique_currency_pairs(svc, exch) ==
    LET target_currencies ==
            svc.target_currencies
                \cup {a[1] : a \in {b \in svc.target_accounts :
                                       b[1] # None /\ b[2] # None}}
        exchange_currencies ==
            ({exch[c] : c \in target_currencies} \ {None})
                \cup ({a[2] : a \in svc.target_accounts} \ {None})
    IN  [target_currencies |-> target_currencies,
         exchange_currencies |-> exchange_currencies]

\* DecimalField(max_digits=42, decimal_places=30): a rate with more than 12
\* digits before the decimal point cannot be written.
IntegerDigits == 12

Storable(rate) == rate.c = 0 \/ NumDigits(rate.c) + rate.e <= IntegerDigits

\* As Collides, but the table has no unique constraint.
Collides_Never(rows, i, f, t, date) == FALSE

\* unique_together = ("from_currency", "to_currency", "date"): some row other
\* than row i has this pair at this date.
Collides(rows, i, f, t, date) ==
    \E j \in 1..Len(rows) :
        /\ j # i
        /\ rows[j].from_currency = f /\ rows[j].to_currency = t
        /\ rows[j].date = date

\* ExchangeRate.objects.create(automatic=True, from_currency=f, to_currency=t,
\* rate=rate, date=timezone.now())
Create(rows, f, t, rate, date) ==
    IF ~Storable(rate) THEN [raised |-> "InvalidOperation", rows |-> rows, at |-> 0]
    ELSE IF Collides(rows, 0, f, t, date)
    THEN [raised |-> "IntegrityError", rows |-> rows, at |-> 0]
    ELSE [raised |-> "none", at |-> Len(rows) + 1,
          rows |-> Append(rows, [from_currency |-> f, to_currency |-> t,
                                 rate |-> rate, date |-> date,
                                 automatic |-> TRUE])]

\* exchange_rate.rate = rate; exchange_rate.date = timezone.now();
\* exchange_rate.save() for row i.
Save(rows, i, rate, date) ==
    IF ~Storable(rate) THEN [raised |-> "InvalidOperation", rows |-> rows, at |-> 0]
    ELSE IF Collides(rows, i, rows[i].from_currency, rows[i].to_currency, date)
    THEN [raised |-> "IntegrityError", rows |-> rows, at |-> 0]
    ELSE [raised |-> "none", at |-> i,
          rows |-> [rows EXCEPT ![i] = [@ EXCEPT !.rate = rate, !.date = date]]]

\* As LatestAutomatic, but the query finds no row.
LatestAutomatic_NeverFinds(rows, f, t) == 0

\* As LatestAutomatic, but without the filter automatic=True.
LatestAutomatic_AnyRow(rows, f, t) ==
    LET C == {i \in 1..Len(rows) :
                 rows[i].from_currency = f /\ rows[i].to_currency = t}
    IN  IF C = {} THEN 0
        ELSE CHOOSE i \in C : \A j \in C : rows[j].date <= rows[i].date

\* ExchangeRate.objects.filter(automatic=True, from_currency=f,
\* to_currency=t).order_by("-date").first(): the row's place, 0 for None.
LatestAutomatic(rows, f, t) ==
    LET C == {i \in 1..Len(rows) :
                 /\ rows[i].automatic
                 /\ rows[i].from_currency = f /\ rows[i].to_currency = t}
    IN  IF C = {} THEN 0
        ELSE CHOOSE i \in C : \A j \in C : rows[j].date <= rows[i].date

\* As Upsert, but the lookup is skipped: a row is created whatever exists.
Upsert_AlwaysCreate(rows, f, t, rate, singleton, date) ==
    Create(rows, f, t, rate, date)

\* As Upsert, but the lookup is made for every service, singleton or not.
Upsert_AlwaysLookup(rows, f, t, rate, singleton, date) ==
    LET exchange_rate == LatestAutomatic(rows, f, t) IN
    IF exchange_rate = 0 THEN Create(rows, f, t, rate, date)
    ELSE Save(rows, exchange_rate, rate, date)

\* One branch of the loop body of _fetch_service_rates with the pair (f, t)
\* it writes: the singleton lookup, then create or update.
Upsert(rows, f, t, rate, singleton, date) ==
    LET exchange_rate == IF singleton THEN LatestAutomatic(rows, f, t) ELSE 0 IN
    IF exchange_rate = 0 THEN Create(rows, f, t, rate, date)
    ELSE Save(rows, exchange_rate, rate, date)

\* As ProcessTriple, but the inverted branch writes to_currency on both sides.
ProcessTriple_SameCurrency(rows, triple, inverted, singleton, processed_pairs, date) ==
    IF <<triple[1], triple[2]>> \in processed_pairs
    THEN [raised |-> "none", rows |-> rows, at |-> 0,
          processed_pairs |-> processed_pairs]
    ELSE LET f == IF inverted THEN triple[2] ELSE triple[1]
             w == Upsert(rows, f, triple[2], triple[3], singleton, date)
         IN  [raised |-> w.raised, rows |-> w.rows, at |-> w.at,
              processed_pairs |-> processed_pairs \cup {<<f, triple[2]>>}]

\* As ProcessTriple, but the branch of the providers that are not inverted is
\* taken for every provider.
ProcessTriple_NeverSwaps(rows, triple, inverted, singleton, processed_pairs, date) ==
    IF <<triple[1], triple[2]>> \in processed_pairs
    THEN [raised |-> "none", rows |-> rows, at |-> 0,
          processed_pairs |-> processed_pairs]
    ELSE LET w == Create(rows, triple[1], triple[2], triple[3], date)
         IN  [raised |-> w.raised, rows |-> w.rows, at |-> w.at,
              processed_pairs |-> processed_pairs \cup {<<triple[1], triple[2]>>}]

\* The loop body of _fetch_service_rates for one triple
\* <<from_currency, to_currency, rate>> of the provider.
ProcessTriple(rows, triple, inverted, singleton, processed_pairs, date) ==
    LET from_currency == triple[1]
        to_currency == triple[2]
        rate == triple[3]
    IN  IF <<from_currency, to_currency>> \in processed_pairs
        THEN [raised |-> "none", rows |-> rows, at |-> 0,
              processed_pairs |-> processed_pairs]
        ELSE IF inverted
        THEN LET w == Upsert(rows, to_currency, from_currency, rate, singleton, date)
             IN  [raised |-> w.raised, rows |-> w.rows, at |-> w.at,
                  processed_pairs |->
                      processed_pairs \cup {<<to_currency, from_currency>>}]
        ELSE LET w == Upsert(rows, from_currency, to_currency, rate, singleton, date)
             IN  [raised |-> w.raised, rows |-> w.rows, at |-> w.at,
                  processed_pairs |->
                      processed_pairs \cup {<<from_currency, to_currency>>}]

\* As LastFetchAfterCycle, but a cycle that stored nothing leaves last_fetch
\* as it was.
LastFetch_OnlyWhenStored(svc, processed_pairs, t) ==
    IF processed_pairs = {} THEN svc.last_fetch ELSE t

\* service.last_fetch = timezone.now() at the end of a cycle.
LastFetchAfterCycle(svc, processed_pairs, t) == t

\* As AfterError, but without the except clauses: the exception leaves the
\* loop and no further service is read.
AfterError_Abort(todo) == <<>>

\* The except clauses of _fetch_service_rates and of the loop of
\* fetch_due_rates: the error is logged and the loop goes on with the services
\* still to read.
AfterError(todo) == todo

\* What the last pass of the loop over the triples did: the triple read, the
\* place of the row it wrote, 0 when it wrote none, and the number of rows it
\* found.
NoWrite == [triple |-> <<>>, at |-> 0, had |-> 0]

Idle ==
    [pc |-> "idle", n |-> 0, force |-> FALSE, current_hour |-> 0, started |-> 0,
     active |-> {}, todo |-> <<>>, cur |-> 0, pending |-> <<>>,
     processed_pairs |-> {}, last |-> NoWrite, before |-> <<>>]

\* Nothing logged of a service: not reached by the loop.
NotReached ==
    [outcome |-> "none", cause |-> "none", at |-> None, yielded |-> <<>>,
     stored |-> {}]

\* What is known of a service after its pass: how it ended, when, the triples
\* its provider yielded and the pairs the loop over them wrote.
Logged(outcome, cause, at, yielded, stored) ==
    [outcome |-> outcome, cause |-> cause, at |-> at, yielded |-> yielded,
     stored |-> stored]

DefaultService ==
    [is_active |-> FALSE, service_type |-> "frankfurter", api_key |-> FALSE,
     interval_type |-> "every", fetch_interval |-> <<"2", "4">>,
     last_fetch |-> None, singleton |-> FALSE,
     target_currencies |-> {}, target_accounts |-> {}]

\* No service configured and no run.
\* The concurrent callers of _fetch_service_rates.
WorkerIds == {1, 2}

\* A caller outside _fetch_service_rates: the triple it holds, the row its
\* lookup returned (0 for None), the calls it has made, and whether a lookup of
\* one caller has ever fallen between the lookup and the write of the other.
IdleWorker ==
    [pc |-> "idle", n |-> 0, triple |-> <<>>, exchange_rate |-> 0, raced |-> FALSE]

NoWorkers == [w \in WorkerIds |-> IdleWorker]

NoRun ==
    /\ services = [s \in ServiceIds |-> DefaultService]
    /\ run = Idle
    /\ log = [s \in ServiceIds |-> NotReached]
    /\ workers = NoWorkers

\* ---------------------------------------------- the evaluator on its own

\* Half an hour and a whole hour: last_fetch and now fall inside and on hours.
ClockSteps == {1800, 3600}

\* last_fetch as the evaluation finds it: never set, set on the hour, set
\* inside the hour.
LastFetchValues == {None, 0, 1800}

InitSched ==
    /\ service \in [interval_type : IntervalTypes \cup {"other"},
                    fetch_interval : {<<>>},
                    last_fetch : LastFetchValues]
    /\ now = IF service.last_fetch = None THEN 0 ELSE service.last_fetch
    /\ should_fetch = NotEvaluated
    /\ interval_str = <<>>
    /\ parsed = NotRun
    /\ cleaned = NotCleaned
    /\ exchange_currency = [c \in Currencies |-> None]
    /\ rates = <<>>
    /\ found = NotSearched
    /\ results = NotFetched
    /\ NoRun

\* One more character of service.fetch_interval.
TypeInterval(c) ==
    /\ Len(service.fetch_interval) < MaxIntervalLen
    /\ service' = [service EXCEPT !.fetch_interval = Append(@, c)]
    /\ should_fetch' = NotEvaluated
    /\ UNCHANGED <<now, parse_vars, graph_vars, run_vars>>

\* Time passes.
Tick(d) ==
    /\ now + d <= MaxHours * SecondsPerHour
    /\ now' = now + d
    /\ should_fetch' = NotEvaluated
    /\ UNCHANGED <<service, parse_vars, graph_vars, run_vars>>

\* The call _should_fetch_at_hour(service, current_hour) of fetch_due_rates.
Evaluate ==
    /\ should_fetch = NotEvaluated
    /\ should_fetch' = _should_fetch_at_hour(service, HourOfDay(now), now)
    /\ UNCHANGED <<service, now, parse_vars, graph_vars, run_vars>>

\* The service was found due by a run that is not forced, and its cycle
\* completes: service.last_fetch = timezone.now(); service.save()
Fetch ==
    /\ should_fetch = Returns(TRUE)
    /\ service' = [service EXCEPT !.last_fetch = now]
    /\ should_fetch' = NotEvaluated
    /\ UNCHANGED <<now, parse_vars, graph_vars, run_vars>>

NextSched ==
    \/ \E c \in Chars : TypeInterval(c)
    \/ \E d \in ClockSteps : Tick(d)
    \/ Evaluate
    \/ Fetch

SpecSched == InitSched /\ [][NextSched]_vars

\* --------------------------------------------------------- C3, C4, C5, C6

\* The hours an hour specification denotes, token by token.
HoursOf(s) == UNION {TokenHours(t) : t \in TokensOf(s)}

\* s is an integer literal as int() reads one: a numeral, or a numeral with a
\* minus sign right before its first digit; white space around it allowed.
IsIntegerLiteral(s) ==
    \/ IsNumeral(s)
    \/ \E k \in 1..(Len(s) - 1) :
          /\ s[k] = "-"
          /\ \A i \in 1..(k - 1) : s[i] = " "
          /\ s[k + 1] \in Digits
          /\ IsNumeral(SubSeq(s, k + 1, Len(s)))

IntegerLiteralValue(s) ==
    IF "-" \in Chr(s) THEN 0 - NumeralValue(s) ELSE NumeralValue(s)

\* The number of the clock hour t falls in, counted from time 0.
HourIndex(t) == t \div SecondsPerHour

Evaluated == should_fetch # NotEvaluated

\* C3: with a well-formed hour specification, ON is due iff the current hour
\* is in the parsed set and NOT_ON iff it is not, so that at every hour of the
\* day NOT_ON answers the negation of ON.
C3_OnNotOnComplement ==
    (Evaluated /\ WellFormedHours(service.fetch_interval)) =>
        /\ service.interval_type = "on" =>
              should_fetch = Returns(HourOfDay(now) \in HoursOf(service.fetch_interval))
        /\ service.interval_type = "not_on" =>
              should_fetch = Returns(HourOfDay(now) \notin HoursOf(service.fetch_interval))
        /\ service.interval_type \in {"on", "not_on"} =>
              \A h \in 0..23 :
                  LET on == _should_fetch_at_hour(
                                [service EXCEPT !.interval_type = "on"], h, now)
                      not_on == _should_fetch_at_hour(
                                [service EXCEPT !.interval_type = "not_on"], h, now)
                  IN  /\ on.raised = "none" /\ not_on.raised = "none"
                      /\ on.value = (h \in HoursOf(service.fetch_interval))
                      /\ not_on.value = ~on.value

\* NOT_ON "1-3" evaluated at hour 2 is not due.
C3_Witness ==
    /\ service.interval_type = "not_on"
    /\ service.fetch_interval = <<"1", "-", "3">>
    /\ HourOfDay(now) = 2
    /\ should_fetch = Returns(FALSE)

\* C4: EVERY with an integer interval N and last_fetch set is due iff the clock
\* hour of now is at least N clock hours after the clock hour of last_fetch.
C4_EveryElapsedHours ==
    (/\ Evaluated
     /\ service.interval_type = "every"
     /\ IsIntegerLiteral(service.fetch_interval)
     /\ service.last_fetch # None) =>
        should_fetch = Returns(HourIndex(now) - HourIndex(service.last_fetch)
                                  >= IntegerLiteralValue(service.fetch_interval))

\* Fetched at 0:30, evaluated at 3:00 with N = 3: two and a half hours have
\* passed, three clock hours have, and the service is due.
C4_Witness ==
    /\ service.interval_type = "every"
    /\ service.fetch_interval = <<"3">>
    /\ service.last_fetch = 1800
    /\ now = 3 * SecondsPerHour
    /\ should_fetch = Returns(TRUE)

\* C5 as stated: EVERY with last_fetch unset is due whatever fetch_interval is.
C5_FirstRunAlwaysDue ==
    (Evaluated /\ service.interval_type = "every" /\ service.last_fetch = None) =>
        should_fetch = Returns(TRUE)

\* C5 amended: EVERY with last_fetch unset is due for every fetch_interval that
\* is an integer literal, whatever its value, and not due for any other.
C5_FirstRunDueIffInteger ==
    (Evaluated /\ service.interval_type = "every" /\ service.last_fetch = None) =>
        should_fetch = Returns(IsIntegerLiteral(service.fetch_interval))

\* Never fetched, interval "35" (an integer no validation would accept): due.
C5_Witness ==
    /\ service.interval_type = "every"
    /\ service.fetch_interval = <<"3", "5">>
    /\ service.last_fetch = None
    /\ should_fetch = Returns(TRUE)

\* fetch_interval does not parse under the service's interval type.
ParseFails(svc) ==
    \/ svc.interval_type \in {"on", "not_on"} /\ ~WellFormedHours(svc.fetch_interval)
    \/ svc.interval_type = "every" /\ ~IsIntegerLiteral(svc.fetch_interval)

\* C6: whatever the interval type and the fetch_interval string,
\* _should_fetch_at_hour returns a boolean and raises nothing, and it returns
\* False whenever fetch_interval fails to parse.
C6_EvaluatorNeverRaises ==
    Evaluated =>
        /\ should_fetch.raised = "none"
        /\ should_fetch.value \in BOOLEAN
        /\ ParseFails(service) => should_fetch.value = FALSE

\* ON with the reversed range "5-3": evaluated, nothing raised, not due.
C6_Witness ==
    /\ service.interval_type = "on"
    /\ service.fetch_interval = <<"5", "-", "3">>
    /\ should_fetch = Returns(FALSE)

\* ------------------------------------------------------------------ C29

\* EVERY mode with an interval N >= 1 that validation accepts the form of.
EveryN(svc) ==
    /\ svc.interval_type = "every"
    /\ IsIntegerLiteral(svc.fetch_interval)
    /\ IntegerLiteralValue(svc.fetch_interval) >= 1

\* C29: an EVERY service with interval N >= 1 whose last cycle completed in
\* clock hour h is not fetched again by a run that is not forced before clock
\* hour h + N, and any such run that reads it at or after clock hour h + N
\* finds it due.
C29_OncePerWindow ==
    /\ [][(EveryN(service) /\ service.last_fetch # None
              /\ service'.last_fetch # service.last_fetch) =>
             HourIndex(service'.last_fetch) >=
                 HourIndex(service.last_fetch)
                     + IntegerLiteralValue(service.fetch_interval)]_vars
    /\ []((Evaluated /\ EveryN(service) /\ service.last_fetch # None
              /\ HourIndex(now) >= HourIndex(service.last_fetch)
                     + IntegerLiteralValue(service.fetch_interval)) =>
             should_fetch = Returns(TRUE))

\* N = 1: a cycle completed at 1:00, and at 1:30, in the same clock hour, the
\* service is found not due.
C29_Witness ==
    /\ service.interval_type = "every"
    /\ service.fetch_interval = <<"1">>
    /\ service.last_fetch = SecondsPerHour
    /\ now = SecondsPerHour + 1800
    /\ should_fetch = Returns(FALSE)

\* ------------------------------------------------- the parser on its own

InitParse ==
    /\ interval_str = <<>>
    /\ parsed = NotRun
    /\ cleaned = NotCleaned
    /\ service = [interval_type |-> "every", fetch_interval |-> <<"1">>,
                  last_fetch |-> None]
    /\ now = 0
    /\ should_fetch = NotEvaluated
    /\ exchange_currency = [c \in Currencies |-> None]
    /\ rates = <<>>
    /\ found = NotSearched
    /\ results = NotFetched
    /\ NoRun

\* One more character of the hour specification.
TypeChar(c) ==
    /\ Len(interval_str) < MaxLen
    /\ interval_str' = Append(interval_str, c)
    /\ parsed' = NotRun
    /\ cleaned' = NotCleaned
    /\ UNCHANGED <<sched_vars, now, graph_vars, run_vars>>

\* The call _parse_hour_ranges(interval_str).
ParseCall ==
    /\ parsed = NotRun
    /\ parsed' = _parse_hour_ranges(interval_str)
    /\ UNCHANGED <<interval_str, cleaned, sched_vars, now, graph_vars, run_vars>>

\* The call clean() on a service of the given interval type whose
\* fetch_interval is interval_str.
CleanCall(type) ==
    /\ cleaned = NotCleaned
    /\ service' = [service EXCEPT !.interval_type = type]
    /\ cleaned' = clean(type, interval_str)
    /\ UNCHANGED <<interval_str, parsed, should_fetch, now, graph_vars, run_vars>>

NextParse ==
    \/ \E c \in Chars : TypeChar(c)
    \/ ParseCall
    \/ \E type \in IntervalTypes : CleanCall(type)

SpecParse == InitParse /\ [][NextParse]_vars

\* ------------------------------------------------------------------ C21

\* s is one unsigned integer literal, nothing around it, of value 1..24.
EveryForm(s) ==
    /\ s # <<>>
    /\ \A i \in 1..Len(s) : s[i] \in Digits
    /\ PlaceSum(s, Len(s)) \in 1..24

\* C21: clean accepts a service iff its fetch_interval is, in EVERY mode, a
\* single integer of 1..24 and, in ON and NOT_ON mode, a comma-separated list
\* of hours and start-end ranges within 0..23; everything else is rejected
\* with a ValidationError.
C21_CleanAcceptsGrammar ==
    cleaned # NotCleaned =>
        /\ cleaned.raised \in {"none", "ValidationError"}
        /\ cleaned.raised = "none" <=>
              IF service.interval_type = "every" THEN EveryForm(interval_str)
              ELSE WellFormedHours(interval_str)

\* EVERY with "31" has been rejected.
C21_Witness ==
    /\ service.interval_type = "every"
    /\ interval_str = <<"3", "1">>
    /\ cleaned = ValidationError(interval_str)

\* ON with "1-3,5" has been accepted and rewritten as "1,2,3,5".
C21_WitnessAccepted ==
    /\ service.interval_type = "on"
    /\ interval_str = <<"1", "-", "3", ",", "5">>
    /\ cleaned = [raised |-> "none",
                  fetch_interval |-> <<"1", ",", "2", ",", "3", ",", "5">>]

\* --------------------------------------------- the transitive provider

\* Rates the rows of the table carry, row by row: 0.9, 0.8, 3, 0.5.
RateValues == <<Dec(9, 0 - 1), Dec(8, 0 - 1), Dec(3, 0), Dec(5, 0 - 1)>>

RateAt(i) == RateValues[((i - 1) % Len(RateValues)) + 1]

\* Currencies 2 and 3 are quoted in 1, 4 in 3; 1 has no exchange currency.
CurrencyTable == (1 :> None) @@ (2 :> 1) @@ (3 :> 1) @@ (4 :> 3)

InitGraph ==
    /\ exchange_currency = CurrencyTable
    /\ rates = <<>>
    /\ found = NotSearched
    /\ results = NotFetched
    /\ NoRun
    /\ interval_str = <<>>
    /\ parsed = NotRun
    /\ cleaned = NotCleaned
    /\ service = [interval_type |-> "every", fetch_interval |-> <<"1">>,
                  last_fetch |-> None]
    /\ now = 0
    /\ should_fetch = NotEvaluated

\* The rates row i may be entered with: the field takes any decimal, so zero
\* as well.
EnteredRates(i) == {RateAt(i), Dec(0, 0)}

\* A rate from f to t is entered: one more row.  The table is followed up to
\* its first zero rate: the build reads no row after it.
AddRate(f, t) ==
    /\ found = NotSearched /\ results = NotFetched
    /\ Len(rates) < MaxRates
    /\ f # t
    /\ \A i \in 1..Len(rates) : rates[i].rate.c # 0
    /\ \E r \in EnteredRates(Len(rates) + 1) :
          rates' = Append(rates, [from_currency |-> f, to_currency |-> t,
                                  rate |-> r,
                                  date |-> Len(rates) + 1, automatic |-> FALSE])
    /\ found' = NotSearched
    /\ results' = NotFetched
    /\ UNCHANGED <<exchange_currency, parse_vars, sched_vars, now, run_vars>>

\* The call _find_conversion_path(currency_graph, from_id, to_id), built being
\* what _build_currency_graph made of the table.
FindPath(built, from_id, to_id) ==
    /\ found = NotSearched /\ results = NotFetched
    /\ built.raised = "none"
    /\ found' = [from_id |-> from_id, to_id |-> to_id,
                 ret |-> _find_conversion_path(built.graph, from_id, to_id)]
    /\ results' = NotFetched
    /\ UNCHANGED <<exchange_currency, rates, parse_vars, sched_vars, now, run_vars>>

\* The target currencies of the transitive services: three currencies or all.
TargetSets == {S \in SUBSET Currencies : Cardinality(S) >= 3}

\* The call get_rates(target_currencies, exchange_currencies) of a transitive
\* service whose targets are the currencies of targets.
GetRates(targets) ==
    /\ found = NotSearched /\ results = NotFetched
    /\ results' = [targets |-> targets,
                   ret |-> get_rates(targets,
                                     {exchange_currency[c] : c \in targets} \ {None},
                                     rates, exchange_currency)]
    /\ found' = NotSearched
    /\ UNCHANGED <<exchange_currency, rates, parse_vars, sched_vars, now, run_vars>>

\* The currencies a search starts from: the exchange currencies of the table.
Sources == {exchange_currency[c] : c \in Currencies} \ {None}

NextGraph ==
    \/ \E f, t \in Currencies : AddRate(f, t)
    \/ LET built == _build_currency_graph(rates) IN
          \E f \in Sources, t \in Currencies : FindPath(built, f, t)
    \/ \E targets \in TargetSets : GetRates(targets)

SpecGraph == InitGraph /\ [][NextGraph]_vars

\* The table and the searches over its graph alone, without the provider's
\* get_rates: the specification the claims about _build_currency_graph itself
\* are checked under.
NextBuild ==
    \/ \E f, t \in Currencies : AddRate(f, t)
    \/ LET built == _build_currency_graph(rates) IN
          \E f \in Sources, t \in Currencies : FindPath(built, f, t)

SpecBuild == InitGraph /\ [][NextBuild]_vars

\* -------------------------------------------------------------- C9, C10

Neighbours(g, n) == IF n \in DOMAIN g THEN {g[n][i][1] : i \in 1..Len(g[n])} ELSE {}

Weight(g, a, b) == g[a][CHOOSE i \in 1..Len(g[a]) : g[a][i][1] = b][2]

RECURSIVE Closure(_, _)
\* The nodes some chain of edges leads to from a node of S.
Closure(g, S) ==
    LET T == S \cup UNION {Neighbours(g, n) : n \in S} IN
    IF T = S THEN S ELSE Closure(g, T)

Connected(g, s, t) == t \in Closure(g, {s})

RECURSIVE HopsFrom(_, _, _)
\* The least number of edges of a chain from a node of S to t, which some
\* chain reaches.
HopsFrom(g, S, t) ==
    IF t \in S THEN 0
    ELSE 1 + HopsFrom(g, S \cup UNION {Neighbours(g, n) : n \in S}, t)

MinHops(g, s, t) == HopsFrom(g, {s}, t)

FollowsEdges(g, p) == \A i \in 1..(Len(p) - 1) : p[i + 1] \in Neighbours(g, p[i])

RECURSIVE ProductAlong(_, _, _)
\* 1 multiplied by the weights of the first i edges of p, in order.
ProductAlong(g, p, i) ==
    IF i = 0 THEN One
    ELSE DecMul(ProductAlong(g, p, i - 1), Weight(g, p[i], p[i + 1]))

Searched == found # NotSearched

Fetched == results # NotFetched

\* C9: for a source and a target that are in the graph and connected,
\* _find_conversion_path returns a path from the source to the target along
\* edges of the graph, with as few edges as any connecting chain has, and the
\* rate 1 multiplied by the weights of the path's edges.
C9_ShortestPathWithProduct ==
    LET g == _build_currency_graph(rates).graph
        r == found.ret
    IN  (/\ Searched
         /\ found.from_id \in DOMAIN g /\ found.to_id \in DOMAIN g
         /\ Connected(g, found.from_id, found.to_id)) =>
            /\ r.raised = "none"
            /\ r.path # <<>>
            /\ r.path[1] = found.from_id
            /\ r.path[Len(r.path)] = found.to_id
            /\ FollowsEdges(g, r.path)
            /\ Len(r.path) - 1 = MinHops(g, found.from_id, found.to_id)
            /\ r.rate = ProductAlong(g, r.path, Len(r.path) - 1)

\* 1->2 at 0.9 and 2->3 at 0.8: the path from 1 to 3 is [1,2,3] at 0.72.
C9_Witness ==
    /\ Len(rates) = 2
    /\ <<rates[1].from_currency, rates[1].to_currency, rates[1].rate>>
           = <<1, 2, Dec(9, 0 - 1)>>
    /\ <<rates[2].from_currency, rates[2].to_currency, rates[2].rate>>
           = <<2, 3, Dec(8, 0 - 1)>>
    /\ found = [from_id |-> 1, to_id |-> 3,
                ret |-> [raised |-> "none", path |-> <<1, 2, 3>>,
                         rate |-> Dec(72, 0 - 2)]]

\* exch[t] and t are in the graph and connected.
HasPath(g, exch, t) ==
    /\ exch[t] # None
    /\ exch[t] \in DOMAIN g /\ t \in DOMAIN g
    /\ Connected(g, exch[t], t)

\* C10: _find_conversion_path returns (None, None) and raises nothing when the
\* source or the target is not in the graph or no chain connects them; the
\* transitive provider then has no triple for that target and still has one
\* for every other target whose exchange currency reaches it.
C10_NoPathIsNoError ==
    LET built == _build_currency_graph(rates)
        g == built.graph
    IN  /\ (/\ Searched
            /\ \/ found.from_id \notin DOMAIN g
               \/ found.to_id \notin DOMAIN g
               \/ ~Connected(g, found.from_id, found.to_id)) => found.ret = NoPath
        /\ (Fetched /\ built.raised = "none") =>
              /\ results.ret.raised = "none"
              /\ \A t \in Currencies :
                    (\E i \in 1..Len(results.ret.results) :
                          results.ret.results[i][2] = t)
                        <=> (t \in results.targets /\ HasPath(g, exchange_currency, t))

\* Targets 2, 3 and 4 with the one rate 3->1: 2 and 4 are not in the graph and
\* get no triple, 3 gets <<1, 3, 1/0.9>>.
C10_Witness ==
    /\ Len(rates) = 1
    /\ rates[1].from_currency = 3 /\ rates[1].to_currency = 1
    /\ results.targets = {2, 3, 4}
    /\ results.ret = [raised |-> "none", results |-> <<<<1, 3, Dec(111, 0 - 2)>>>>]

\* ------------------------------------------------------------------ C22

HasEdge(g, a, b) == a \in DOMAIN g /\ \E i \in 1..Len(g[a]) : g[a][i][1] = b

\* The rows of the table from a to b, by position.
RecordsOn(a, b) ==
    {i \in 1..Len(rates) : rates[i].from_currency = a /\ rates[i].to_currency = b}

Last(S) == CHOOSE i \in S : \A j \in S : j <= i

\* C22 as claimed: in the graph _build_currency_graph returns, every ordered
\* pair (A,B) the table has a record for carries, on the edge from A to B, the
\* rate of the last record of (A,B).
C22_LastRecordOfOrderedPairWins ==
    LET built == _build_currency_graph(rates) IN
    built.raised = "none" =>
        \A a, b \in Currencies :
            RecordsOn(a, b) # {} =>
                /\ HasEdge(built.graph, a, b)
                /\ Weight(built.graph, a, b) = rates[Last(RecordsOn(a, b))].rate

\* C22: _build_currency_graph returns a graph iff no record has the rate zero
\* (it raises DivisionByZero otherwise); the graph has an edge from A to B iff
\* the table has a record between A and B in either direction, and its weight
\* is what the last such record wrote: r for a record (A,B,r), 1/r for a
\* record (B,A,r).
C22_LastRecordBetweenPairWins ==
    LET built == _build_currency_graph(rates) IN
    /\ built.raised = "none" <=> \A i \in 1..Len(rates) : rates[i].rate.c # 0
    /\ built.raised # "none" => built.raised = "DivisionByZero"
    /\ built.raised = "none" =>
          \A a, b \in Currencies :
              LET between == RecordsOn(a, b) \cup RecordsOn(b, a) IN
              /\ HasEdge(built.graph, a, b) <=> between # {}
              /\ between # {} =>
                    LET rate == rates[Last(between)] IN
                    Weight(built.graph, a, b) =
                        IF rate.from_currency = a THEN rate.rate
                        ELSE Reciprocal(rate.rate).val

\* 1->2 at 0.9, then 1->2 at 0.8, then 2->1 at 3: a search over the graph
\* built of them has found the rate 1/3 from 1 to 2.
C22_Witness ==
    /\ Len(rates) = 3
    /\ <<rates[1].from_currency, rates[1].to_currency>> = <<1, 2>>
    /\ <<rates[2].from_currency, rates[2].to_currency>> = <<1, 2>>
    /\ <<rates[3].from_currency, rates[3].to_currency, rates[3].rate>>
           = <<2, 1, Dec(3, 0)>>
    /\ rates[1].rate.c # 0 /\ rates[2].rate.c # 0
    /\ Searched /\ found.from_id = 1 /\ found.to_id = 2
    /\ found.ret.rate = Dec(333, 0 - 3)

\* ------------------------------------------------------------------ C32

\* C32 as claimed: the graph built of records with rates other than zero has
\* B among the neighbours of A iff it has A among those of B, and the weight
\* from B to A is 1 / the weight from A to B, for every A and B.
C32_ReciprocalBothWays ==
    LET built == _build_currency_graph(rates) IN
    built.raised = "none" =>
        \A a, b \in Currencies :
            /\ HasEdge(built.graph, a, b) <=> HasEdge(built.graph, b, a)
            /\ HasEdge(built.graph, a, b) =>
                  Weight(built.graph, b, a)
                      = Reciprocal(Weight(built.graph, a, b)).val

\* C32: the graph built of records with rates other than zero has B among the
\* neighbours of A iff it has A among those of B, and of the two weights
\* between A and B one is Decimal(1) / the other: the weight against the
\* direction of the last record between them is the quotient, rounded by the
\* decimal context.
C32_ReciprocalOneWay ==
    LET built == _build_currency_graph(rates) IN
    built.raised = "none" =>
        \A a, b \in Currencies :
            /\ HasEdge(built.graph, a, b) <=> HasEdge(built.graph, b, a)
            /\ HasEdge(built.graph, a, b) =>
                  LET between == RecordsOn(a, b) \cup RecordsOn(b, a)
                      f == rates[Last(between)].from_currency
                      t == rates[Last(between)].to_currency
                  IN  /\ between # {}
                      /\ Weight(built.graph, t, f)
                             = Reciprocal(Weight(built.graph, f, t)).val

\* 1->2 at 0.9, then 2->1 at 0.8: a search over the graph built of them has
\* found 1/0.8 = 1.25 from 1 to 2.
C32_Witness ==
    /\ Len(rates) = 2
    /\ <<rates[1].from_currency, rates[1].to_currency, rates[1].rate>>
           = <<1, 2, Dec(9, 0 - 1)>>
    /\ <<rates[2].from_currency, rates[2].to_currency, rates[2].rate>>
           = <<2, 1, Dec(8, 0 - 1)>>
    /\ Searched /\ found.from_id = 1 /\ found.to_id = 2
    /\ found.ret.rate = Dec(125, 0 - 2)

\* ------------------------------------------------------------------ C33

NoNodeTwice(s) == \A i, j \in 1..Len(s) : s[i] = s[j] => i = j

\* C33: on the graph built of any table, cycles included, a call of
\* _find_conversion_path ends: it enqueues no node twice, so it enqueues at
\* most as many entries as the graph has nodes and pops each at most once;
\* and the path it returns has no node twice.
C33_SearchEndsWithoutRepeats ==
    LET built == _build_currency_graph(rates) IN
    (Searched /\ built.raised = "none") =>
        LET ran == Enqueues(built.graph, found.from_id, found.to_id) IN
        /\ NoNodeTwice(ran.enqueued)
        /\ Len(ran.enqueued) <= Cardinality(DOMAIN built.graph)
        /\ ran.iterations <= Len(ran.enqueued)
        /\ NoNodeTwice(found.ret.path)
        /\ \A i \in 1..Len(found.ret.path) :
              \E j \in 1..Len(ran.enqueued) : ran.enqueued[j] = found.ret.path[i]

\* The cycle 1->2, 2->3, 3->1 searched from 1 to 3: 2 and 3 are enqueued when
\* 1 is popped, 2 is popped and finds both its neighbours visited, and 3 is
\* returned with the path [1, 3].
C33_Witness ==
    /\ Len(rates) = 3
    /\ <<rates[1].from_currency, rates[1].to_currency>> = <<1, 2>>
    /\ <<rates[2].from_currency, rates[2].to_currency>> = <<2, 3>>
    /\ <<rates[3].from_currency, rates[3].to_currency>> = <<3, 1>>
    /\ Searched /\ found.from_id = 1 /\ found.to_id = 3
    /\ found.ret.path = <<1, 3>>
    /\ Enqueues(_build_currency_graph(rates).graph, 1, 3)
           = [enqueued |-> <<1, 2, 3>>, iterations |-> 3]

\* ------------------------------------------------------ fetch_due_rates

\* The currencies of the store the services run on: 1 and 2 are quoted in
\* each other, 4 in 3, and 3 has no exchange currency.
StoreTable == (1 :> 2) @@ (2 :> 1) @@ (3 :> None) @@ (4 :> 3)

\* A service as the admin saved it.
Configured(type, key, mode, interval, singleton, currencies, accounts) ==
    [is_active |-> TRUE, service_type |-> type, api_key |-> key,
     interval_type |-> mode, fetch_interval |-> interval,
     last_fetch |-> None, singleton |-> singleton,
     target_currencies |-> currencies, target_accounts |-> accounts]

\* The configurations a service is drawn from: an upstream provider that is
\* due at once and whose target comes from an account, one with a key bound to
\* hours, one whose two targets are quoted in each other, a type that is no key of
\* PROVIDER_MAPPING, a missing key, an inactive service, the transitive
\* provider, and a target and an account without an exchange currency.
Profiles ==
    {Configured("frankfurter", FALSE, "every", <<"1">>, FALSE, {}, {<<4, 1>>}),
     Configured("coingecko_free", TRUE, "on", <<"0", "-", "1">>, TRUE, {2}, {}),
     Configured("twelvedatamarkets", TRUE, "every", <<"1">>, FALSE, {1, 2}, {}),
     Configured("pictet", FALSE, "every", <<"x">>, FALSE, {2}, {}),
     Configured("twelvedata", FALSE, "every", <<"1">>, FALSE, {2}, {}),
     DefaultService,
     Configured("transitive", FALSE, "not_on", <<"1">>, TRUE, {2}, {}),
     Configured("frankfurter", FALSE, "every", <<"1">>, FALSE, {3}, {<<3, None>>})}

\* The rate the upstream APIs quote in each hour: ordinary rates and, in the
\* third hour, one too large for the rate column.
Quotes == <<Dec(2, 0), Dec(5, 0 - 1), Dec(1, 12), Dec(3, 0)>>

QuoteAt(t) == Quotes[(HourOfDay(t) % Len(Quotes)) + 1]

\* get_rates of the providers of an upstream API whose outer handler lets
\* exceptions other than requests.RequestException through.
UpstreamMayRaise(service_type) ==
    service_type \in {"coingecko_free", "coingecko_pro"}

\* What get_rates of an upstream provider can return at time t: for any of the
\* targets whose exchange currency is asked for, in the order of the queryset,
\* the triple <<target.exchange_currency, target, rate>>.
UpstreamResults(target_currencies, exchange_currencies, exch, t) ==
    LET eligible == {c \in target_currencies : exch[c] \in exchange_currencies}
    IN  {LET o == InIdOrder(S) IN
         [i \in 1..Len(o) |-> <<exch[o[i]], o[i], QuoteAt(t)>>] :
            S \in SUBSET eligible}

\* provider.get_rates(target_currencies, exchange_currencies): every return
\* and every exception the call can end in.
ProviderOutcomes(svc, pairs, rows, exch, t) ==
    IF svc.service_type = "transitive"
    THEN {get_rates(pairs.target_currencies, pairs.exchange_currencies, rows, exch)}
    ELSE {[raised |-> "none", results |-> q] :
             q \in UpstreamResults(pairs.target_currencies,
                                   pairs.exchange_currencies, exch, t)}
         \cup (IF UpstreamMayRaise(svc.service_type)
               THEN {[raised |-> "ValueError", results |-> <<>>]}
               ELSE {})

Init ==
    /\ services \in [ServiceIds -> Profiles]
    /\ workers = NoWorkers
    /\ run = Idle
    /\ log = [s \in ServiceIds |-> NotReached]
    /\ now = 0
    /\ exchange_currency = StoreTable
    /\ rates = <<>>
    /\ found = NotSearched
    /\ results = NotFetched
    /\ interval_str = <<>>
    /\ parsed = NotRun
    /\ cleaned = NotCleaned
    /\ service = [interval_type |-> "every", fetch_interval |-> <<"1">>,
                  last_fetch |-> None]
    /\ should_fetch = NotEvaluated

rest_vars == <<exchange_currency, found, results, parse_vars, sched_vars, workers>>

\* An hour passes: between two runs, or while get_rates waits for the
\* provider's answer.
Pass ==
    /\ \/ run.pc = "idle"
       \/ run.pc = "cycle" /\ run.pending = log[run.cur].yielded
    /\ now + SecondsPerHour <= MaxHours * SecondsPerHour
    /\ now' = now + SecondsPerHour
    /\ UNCHANGED <<rates, run_vars, rest_vars>>

\* As FetchDueRates, but the queryset is not filtered by is_active.
FetchDueRates_AllServices(force) ==
    /\ run.pc = "idle" /\ run.n < MaxRuns
    /\ run' = [Idle EXCEPT !.pc = "loop", !.n = run.n + 1, !.force = force,
                           !.current_hour = HourOfDay(now), !.started = now,
                           !.active = ServiceIds, !.todo = InIdOrder(ServiceIds)]
    /\ log' = [s \in ServiceIds |-> NotReached]
    /\ UNCHANGED <<services, rates, now, rest_vars>>

\* fetch_due_rates(force) up to its loop: the active services and the hour.
FetchDueRates(force) ==
    /\ run.pc = "idle" /\ run.n < MaxRuns
    /\ LET active == {s \in ServiceIds : services[s].is_active} IN
       run' = [Idle EXCEPT !.pc = "loop", !.n = run.n + 1, !.force = force,
                           !.current_hour = HourOfDay(now), !.started = now,
                           !.active = active, !.todo = InIdOrder(active)]
    /\ log' = [s \in ServiceIds |-> NotReached]
    /\ UNCHANGED <<services, rates, now, rest_vars>>

\* The loop is left with service s logged as over; an exception goes through
\* the except clauses.
Leave(s, entry) ==
    /\ log' = [log EXCEPT ![s] = entry]
    /\ run' = [run EXCEPT !.pc = "loop", !.cur = 0, !.pending = <<>>,
                          !.processed_pairs = {}, !.last = NoWrite,
                          !.before = <<>>,
                          !.todo = IF entry.outcome = "error"
                                   THEN AfterError(Tail(run.todo))
                                   ELSE Tail(run.todo)]

\* One pass of the loop of fetch_due_rates for the next service, and
\* _fetch_service_rates up to the return of provider.get_rates.
BeginService ==
    /\ run.pc = "loop" /\ run.todo # <<>>
    /\ LET s == Head(run.todo)
           svc == services[s]
           due == _should_fetch_at_hour(svc, run.current_hour, now)
           provider == get_provider(svc)
           pairs == _get_unique_currency_pairs(svc, exchange_currency)
       IN  IF ~run.force /\ due.raised # "none"
           THEN Leave(s, Logged("error", due.raised, now, <<>>, {}))
           ELSE IF ~run.force /\ ~due.value
           THEN Leave(s, Logged("not_due", "none", now, <<>>, {}))
           ELSE IF provider.raised # "none"
           THEN Leave(s, Logged("error", provider.raised, now, <<>>, {}))
           ELSE IF requires_api_key(svc.service_type) /\ ~svc.api_key
           THEN Leave(s, Logged("no_key", "none", now, <<>>, {}))
           ELSE IF pairs.target_currencies = {} \/ pairs.exchange_currencies = {}
           THEN Leave(s, Logged("no_pairs", "none", now, <<>>, {}))
           ELSE \E out \in ProviderOutcomes(svc, pairs, rates, exchange_currency, now) :
                   IF out.raised # "none"
                   THEN Leave(s, Logged("error", out.raised, now, <<>>, {}))
                   ELSE /\ run' = [run EXCEPT !.pc = "cycle", !.cur = s,
                                              !.pending = out.results,
                                              !.processed_pairs = {},
                                              !.before = rates]
                        /\ log' = [log EXCEPT ![s] =
                                      Logged("cycle", "none", now, out.results, {})]
    /\ UNCHANGED <<services, rates, now, rest_vars>>

\* The body of the loop over the provider's triples, for the next triple.
StoreRate ==
    /\ run.pc = "cycle" /\ run.pending # <<>>
    /\ LET svc == services[run.cur]
           w == ProcessTriple(rates, Head(run.pending),
                              rates_inverted(svc.service_type), svc.singleton,
                              run.processed_pairs, now)
       IN  /\ Len(w.rows) <= MaxRates
           /\ IF w.raised # "none"
              THEN /\ Leave(run.cur, Logged("error", w.raised, now,
                                            log[run.cur].yielded,
                                            run.processed_pairs))
                   /\ UNCHANGED rates
              ELSE /\ rates' = w.rows
                   /\ run' = [run EXCEPT !.pending = Tail(run.pending),
                                         !.processed_pairs = w.processed_pairs,
                                         !.last = [triple |-> Head(run.pending),
                                                   at |-> w.at,
                                                   had |-> Len(rates)]]
                   /\ UNCHANGED log
    /\ UNCHANGED <<services, now, rest_vars>>

\* After the last triple: service.last_fetch = timezone.now(); service.save()
FinishCycle ==
    /\ run.pc = "cycle" /\ run.pending = <<>>
    /\ services' = [services EXCEPT ![run.cur].last_fetch =
                       LastFetchAfterCycle(services[run.cur],
                                           run.processed_pairs, now)]
    /\ Leave(run.cur, Logged("done", "none", now, log[run.cur].yielded,
                             run.processed_pairs))
    /\ UNCHANGED <<rates, now, rest_vars>>

\* The loop has read every service: fetch_due_rates returns.
Return ==
    /\ run.pc = "loop" /\ run.todo = <<>>
    /\ run' = [run EXCEPT !.pc = "idle"]
    /\ UNCHANGED <<services, log, rates, now, rest_vars>>

Next ==
    \/ Pass
    \/ \E force \in BOOLEAN : FetchDueRates(force)
    \/ BeginService
    \/ StoreRate
    \/ FinishCycle
    \/ Return

Spec == Init /\ [][Next]_vars

\* ------------------------------------------------------------ C1 and C2

\* fetch_due_rates has returned.
RunOver == run.pc = "idle" /\ run.n > 0

\* The pair a service's triple is stored under.
StoredPair(svc, triple) ==
    IF rates_inverted(svc.service_type) THEN <<triple[2], triple[1]>>
    ELSE <<triple[1], triple[2]>>

\* Service s stored a rate when its provider yielded any, and every pair its
\* loop stored in this run has an automatic row written during the run.
Persisted(s) ==
    /\ log[s].yielded # <<>> =>
           StoredPair(services[s], log[s].yielded[1]) \in log[s].stored
    /\ \A pair \in log[s].stored :
           \E j \in 1..Len(rates) :
               /\ rates[j].automatic
               /\ <<rates[j].from_currency, rates[j].to_currency>> = pair
               /\ rates[j].date >= run.started

\* Service s went through its fetch cycle without an exception of its own.
Completed(s) == log[s].outcome = "done"

\* C1: when fetch_due_rates returns, every active service has been processed,
\* whatever exception another service met in its provider lookup, in get_rates
\* or in an upsert; each service whose own cycle raised nothing has its rates
\* persisted and its last_fetch updated.
C1_ServicesIsolated ==
    RunOver =>
        \A s \in run.active :
            /\ log[s].outcome \in {"done", "error", "not_due", "no_key", "no_pairs"}
            /\ Completed(s) =>
                  /\ Persisted(s)
                  /\ services[s].last_fetch # None
                  /\ services[s].last_fetch >= run.started

\* The first service fails inside get_rates, the second one stores its rate.
C1_Witness ==
    /\ RunOver
    /\ log[1].outcome = "error" /\ log[1].cause = "ValueError"
    /\ Completed(2) /\ log[2].yielded # <<>> /\ Persisted(2)
    /\ services[2].last_fetch = log[2].at

\* C2: a cycle that completes (the provider was called, every triple it
\* yielded was processed without an exception) sets last_fetch to the time of
\* its end, also when the provider yielded nothing and no row was written.
C2_LastFetchSetOnCompletion ==
    \A s \in ServiceIds :
        Completed(s) => services[s].last_fetch = log[s].at

\* A cycle completed with no triple and an empty table.
C2_Witness ==
    \E s \in ServiceIds :
        /\ Completed(s) /\ log[s].yielded = <<>> /\ rates = <<>>
        /\ services[s].last_fetch = now

\* ---------------------------------------------------------- C11 to C14

\* The loop over the triples has just read a triple / written a row for it.
Read == run.pc = "cycle" /\ run.last.triple # <<>>

Wrote == Read /\ run.last.at # 0

\* Rows of a table for a pair, and the automatic ones among them.
RowsFor(rows, pair) ==
    {j \in 1..Len(rows) : <<rows[j].from_currency, rows[j].to_currency>> = pair}

AutomaticFor(rows, pair) == {j \in RowsFor(rows, pair) : rows[j].automatic}

\* C11: the row written for a triple (A, B, r) has from = B, to = A when the
\* provider declares rates_inverted and from = A, to = B when it does not; its
\* rate is r; a row found by the singleton lookup and overwritten is a row of
\* that same pair.
C11_WrittenAsDeclared ==
    Wrote =>
        LET t == run.last.triple
            row == rates[run.last.at]
        IN  /\ row.rate = t[3]
            /\ row.automatic
            /\ row.date = now
            /\ IF rates_inverted(services[run.cur].service_type)
               THEN row.from_currency = t[2] /\ row.to_currency = t[1]
               ELSE row.from_currency = t[1] /\ row.to_currency = t[2]
            /\ run.last.at <= Len(run.before) =>
                  /\ run.before[run.last.at].from_currency = row.from_currency
                  /\ run.before[run.last.at].to_currency = row.to_currency

\* An inverted singleton provider yielded (1, 2, 2) and the row from 2 to 1 it
\* found was overwritten.
C11_Witness ==
    /\ Wrote
    /\ rates_inverted(services[run.cur].service_type)
    /\ run.last.triple = <<1, 2, Dec(2, 0)>>
    /\ run.last.at <= Len(run.before)
    /\ rates[run.last.at].from_currency = 2 /\ rates[run.last.at].to_currency = 1

\* C12: a singleton service that finds automatic rows for the resolved pair
\* overwrites rate and date of the most recent one and creates none, so the
\* number of rows of the pair stays; when it finds none it creates exactly one.
C12_SingletonUpdatesInPlace ==
    (Wrote /\ services[run.cur].singleton) =>
        LET pair == StoredPair(services[run.cur], run.last.triple)
            old == AutomaticFor(run.before, pair)
        IN  IF old # {}
            THEN /\ run.last.at \in old
                 /\ \A j \in old : run.before[j].date <= run.before[run.last.at].date
                 /\ Len(rates) = run.last.had
                 /\ Cardinality(RowsFor(rates, pair))
                        = Cardinality(RowsFor(run.before, pair))
            ELSE /\ run.last.at = run.last.had + 1
                 /\ Len(rates) = run.last.had + 1
                 /\ Cardinality(RowsFor(rates, pair))
                        = Cardinality(RowsFor(run.before, pair)) + 1

\* In its second run a singleton service overwrote the only row of the table,
\* written an hour before.
C12_Witness ==
    /\ Wrote /\ services[run.cur].singleton
    /\ run.n > 1
    /\ Len(run.before) = 1 /\ Len(rates) = 1
    /\ run.before[1].date < now /\ rates[1].date = now

ReadIndex == Len(log[run.cur].yielded) - Len(run.pending)

EarlierPairs ==
    {StoredPair(services[run.cur], log[run.cur].yielded[i]) : i \in 1..(ReadIndex - 1)}

\* C14: within one cycle a triple is ignored exactly when the pair it resolves
\* to was the resolved pair of a triple before it, so a resolved pair is
\* written at most once and no triple of another pair is ignored.
C14_DedupByResolvedPair ==
    Read =>
        (run.last.at = 0
            <=> StoredPair(services[run.cur], run.last.triple) \in EarlierPairs)

\* What the loop does: a triple (A, B, r) is ignored exactly when (A, B), as
\* yielded, is the pair an earlier triple was stored under.
C14_DedupByYieldedPair ==
    Read =>
        (run.last.at = 0
            <=> <<run.last.triple[1], run.last.triple[2]>> \in EarlierPairs)

\* An inverted provider yielded (2, 1, r) and (1, 2, r'): the second triple was
\* ignored although no triple before it resolves to the pair from 2 to 1.
C14_Witness ==
    /\ Read /\ run.last.at = 0
    /\ rates_inverted(services[run.cur].service_type)
    /\ run.last.triple[1] = 1 /\ run.last.triple[2] = 2
    /\ <<2, 1>> \notin EarlierPairs
    /\ RowsFor(rates, <<2, 1>>) = {}

\* ---------------------------------------------------------- C15 to C17

\* The loop of fetch_due_rates is about to read a service.
AtService == run.pc = "loop" /\ run.todo # <<>>

\* isDue of the service at the hour of the run.
IsDue(svc) == _should_fetch_at_hour(svc, run.current_hour, now) = Returns(TRUE)

\* _fetch_service_rates was called for service s in this run.
FetchCalled(s) == log[s].outcome \in {"error", "no_key", "no_pairs", "cycle", "done"}

\* C15: a service that is not active is never read nor fetched; an active
\* service is fetched under force whatever its schedule, and without force
\* exactly when it is due.
C15_ForceBypassesSchedule ==
    /\ [](\A s \in ServiceIds :
             ~services[s].is_active =>
                 /\ log[s].outcome = "none"
                 /\ services[s].last_fetch = None
                 /\ \A i \in 1..Len(run.todo) : run.todo[i] # s)
    /\ [][AtService =>
            LET s == Head(run.todo) IN
            /\ log'[s].outcome \in {"not_due", "error", "no_key", "no_pairs", "cycle"}
            /\ (log'[s].outcome # "not_due") <=> (run.force \/ IsDue(services[s]))]_vars

\* A forced run at hour 2 fetched a service bound to the hours 0-1 and did not
\* read the inactive one.
C15_Witness ==
    /\ RunOver /\ run.force /\ run.current_hour = 2
    /\ \E s, u \in ServiceIds :
          /\ services[s].interval_type = "on" /\ Completed(s)
          /\ ~services[u].is_active /\ log[u].outcome = "none"

\* The provider of the service asks for a key and the service has none.
KeyMissing(svc) ==
    /\ svc.service_type \in PROVIDER_MAPPING
    /\ svc.service_type \in {"coingecko_free", "coingecko_pro", "twelvedata",
                             "twelvedatamarkets"}
    /\ ~svc.api_key

\* C16: a service whose provider asks for a key it does not have is skipped,
\* forced or not: get_rates is not called, no row is written and last_fetch
\* stays.
C16_MissingKeySkips ==
    /\ [](\A s \in ServiceIds :
             KeyMissing(services[s]) =>
                 /\ log[s].outcome \in {"none", "not_due", "no_key"}
                 /\ services[s].last_fetch = None)
    /\ [][(AtService /\ KeyMissing(services[Head(run.todo)])) =>
            /\ run'.pc = "loop"
            /\ rates' = rates
            /\ services' = services
            /\ (run.force \/ IsDue(services[Head(run.todo)]))
                   => log'[Head(run.todo)].outcome = "no_key"]_vars

\* A forced run skipped a service for its missing key.
C16_Witness ==
    /\ RunOver /\ run.force
    /\ \E s \in ServiceIds :
          /\ KeyMissing(services[s]) /\ log[s].outcome = "no_key"
          /\ services[s].last_fetch = None

\* The effective pairs of a service: a target currency with its exchange
\* currency, an account's currency with the account's exchange currency.
EffectivePairs(svc) ==
    {<<c, exchange_currency[c]>> :
        c \in {d \in svc.target_currencies : exchange_currency[d] # None}}
    \cup {a \in svc.target_accounts : a[1] # None /\ a[2] # None}

\* C17: a due service without effective pairs is skipped: get_rates is not
\* called, no row is written and last_fetch stays.
C17_NoPairsSkips ==
    /\ [](\A s \in ServiceIds :
             (services[s].is_active /\ EffectivePairs(services[s]) = {}) =>
                 /\ log[s].outcome \in {"none", "not_due", "error", "no_key", "no_pairs"}
                 /\ services[s].last_fetch = None)
    /\ [][(AtService /\ EffectivePairs(services[Head(run.todo)]) = {}) =>
            /\ run'.pc = "loop"
            /\ rates' = rates
            /\ services' = services
            /\ ( /\ run.force \/ IsDue(services[Head(run.todo)])
                 /\ services[Head(run.todo)].service_type \in PROVIDER_MAPPING
                 /\ ~KeyMissing(services[Head(run.todo)]) )
                   => log'[Head(run.todo)].outcome = "no_pairs"]_vars

\* A run that was not forced skipped a due service whose target and account
\* have no exchange currency.
C17_Witness ==
    /\ RunOver /\ ~run.force
    /\ \E s \in ServiceIds :
          /\ services[s].target_currencies # {} /\ services[s].target_accounts # {}
          /\ EffectivePairs(services[s]) = {}
          /\ log[s].outcome = "no_pairs"
          /\ services[s].last_fetch = None

\* --------------------------------------------------------- C18 and C19

\* C18: no two rows of the rate table have the same from_currency,
\* to_currency and date.
C18_PairDateUnique ==
    \A i, j \in 1..Len(rates) :
        ( /\ rates[i].from_currency = rates[j].from_currency
          /\ rates[i].to_currency = rates[j].to_currency
          /\ rates[i].date = rates[j].date ) => i = j

\* A service was stopped by the unique constraint: its pair had a row of the
\* same instant, written by the service before it.
C18_Witness ==
    /\ RunOver
    /\ \E s \in ServiceIds :
          /\ log[s].outcome = "error" /\ log[s].cause = "IntegrityError"
          /\ \E j \in 1..Len(rates) :
                /\ rates[j].date = log[s].at
                /\ <<rates[j].from_currency, rates[j].to_currency>>
                       = StoredPair(services[s], log[s].yielded[1])

\* C19: in a store where no currency is its own exchange currency, every row
\* the services write is between two different currencies.
C19_FromDiffersFromTo ==
    (\A c \in Currencies : exchange_currency[c] # c) =>
        \A j \in 1..Len(rates) : rates[j].from_currency # rates[j].to_currency

\* Rows written by an inverted and by a not inverted provider, in both
\* directions between 1 and 2.
C19_Witness ==
    /\ \A c \in Currencies : exchange_currency[c] # c
    /\ RowsFor(rates, <<1, 2>>) # {}
    /\ RowsFor(rates, <<2, 1>>) # {}

\* ------------------------------------------------------------------ C23

\* The pairs <<currency, exchange currency>> of the triples get_rates
\* returned for service s in this run.
FetchedPairs(s) ==
    {<<log[s].yielded[i][2], log[s].yielded[i][1]>> : i \in 1..Len(log[s].yielded)}

\* C23 as claimed: whatever a service is fetched for is one of its effective
\* pairs: a target currency against its exchange currency, or an account's
\* currency against the exchange currency of that account.
C23_FetchedPairsAreEffectivePairs ==
    \A s \in ServiceIds : FetchedPairs(s) \subseteq EffectivePairs(services[s])

\* C23, what the code does: the currencies fetched are the target currencies
\* and the currencies of the accounts that have an exchange currency, and each
\* is fetched against the exchange currency of the Currency, whatever the
\* account says.
C23_FetchedAgainstCurrencyExchange ==
    \A s \in ServiceIds :
        LET svc == services[s]
            currencies == svc.target_currencies
                \cup {a[1] : a \in {b \in svc.target_accounts : b[2] # None}}
        IN  FetchedPairs(s) \subseteq
                {<<c, exchange_currency[c]>> :
                    c \in {d \in currencies : exchange_currency[d] # None}}

\* A service whose one account holds currency 4 with exchange currency 1 was
\* given a rate of 4 against 3, the exchange currency of currency 4.
C23_Witness ==
    \E s \in ServiceIds :
        /\ services[s].target_currencies = {}
        /\ services[s].target_accounts = {<<4, 1>>}
        /\ log[s].outcome = "done"
        /\ FetchedPairs(s) = {<<4, 3>>}

\* ------------------------------------------------------------------ C24

\* C24: a step of a run changes no field of any service but last_fetch, and
\* changes last_fetch only of an active service that is fetched (forced, or
\* due when the loop read it) and not skipped for a missing key or for want of
\* pairs.
C24_OnlyLastFetchChanges ==
    [][\A s \in ServiceIds :
          /\ [services'[s] EXCEPT !.last_fetch = services[s].last_fetch] = services[s]
          /\ services'[s] # services[s] =>
                /\ services[s].is_active
                /\ \/ run.force
                   \/ _should_fetch_at_hour(services[s], run.current_hour, log[s].at)
                          = Returns(TRUE)
                /\ ~KeyMissing(services[s])
                /\ EffectivePairs(services[s]) # {}]_vars

\* A run that was not forced is over at hour 2: it stamped a service that was
\* due and left alone one that was not due, one stamped an hour before.
C24_Witness ==
    /\ RunOver /\ ~run.force /\ run.current_hour = 2
    /\ \E s, u \in ServiceIds :
          /\ log[s].outcome = "done" /\ services[s].last_fetch >= run.started
          /\ log[u].outcome = "not_due"
          /\ services[u].last_fetch # None /\ services[u].last_fetch < run.started

\* ------------------------------------------------------------------ C26

Reverse(p) == [i \in 1..Len(p) |-> p[Len(p) + 1 - i]]

\* The loop has just written a row for a triple of a transitive service.
TransitiveWrote == Wrote /\ services[run.cur].service_type = "transitive"

\* The path the provider found for the row just written, from the exchange
\* currency (the row's to_currency) to the target (its from_currency), in the
\* graph of the table get_rates read.
PathOfRow ==
    LET row == rates[run.last.at] IN
    _find_conversion_path(_build_currency_graph(run.before).graph,
                          row.to_currency, row.from_currency).path

\* C26 as claimed: the rate of the row a transitive service writes is the
\* product of the weights along the found path walked from the row's
\* from_currency to its to_currency.
C26_RateAlongFromTo ==
    TransitiveWrote =>
        LET p == Reverse(PathOfRow) IN
        rates[run.last.at].rate =
            ProductAlong(_build_currency_graph(run.before).graph, p, Len(p) - 1)

\* C26, what the code does: the rate of the row is the product along the path
\* walked from the exchange currency to the target, that is from the row's
\* to_currency to its from_currency.
C26_RateAlongToFrom ==
    TransitiveWrote =>
        LET p == PathOfRow IN
        /\ p # <<>>
        /\ rates[run.last.at].rate =
               ProductAlong(_build_currency_graph(run.before).graph, p, Len(p) - 1)

\* The table had the one rate from 2 to 1 at 2; the transitive service whose
\* target is 2, quoted in 1, has written 0.5 from 2 to 1.
C26_Witness ==
    /\ TransitiveWrote
    /\ Len(run.before) = 1
    /\ <<run.before[1].from_currency, run.before[1].to_currency,
         run.before[1].rate>> = <<2, 1, Dec(2, 0)>>
    /\ <<rates[run.last.at].from_currency, rates[run.last.at].to_currency,
         rates[run.last.at].rate>> = <<2, 1, Dec(5, 0 - 1)>>

\* ------------------------------------------------------------------ C28

\* C28 as claimed: get_provider succeeds for a service of every type of
\* ServiceType: no call of _fetch_service_rates ends in the KeyError of the
\* lookup in PROVIDER_MAPPING.
C28_EveryTypeResolves ==
    \A s \in ServiceIds :
        (services[s].service_type \in ServiceType /\ FetchCalled(s)) =>
            log[s].cause # "KeyError"

\* C28, what the code does: the lookup succeeds for the types that are keys of
\* PROVIDER_MAPPING; for a service of another type the call ends in a KeyError
\* with no row written and last_fetch as it was.
C28_OnlyMappedTypesResolve ==
    \A s \in ServiceIds :
        /\ (FetchCalled(s) /\ services[s].service_type \in PROVIDER_MAPPING) =>
              log[s].cause # "KeyError"
        /\ services[s].service_type \notin PROVIDER_MAPPING =>
              /\ log[s].outcome \in {"none", "not_due", "error"}
              /\ log[s].outcome = "error" => log[s].cause = "KeyError"
              /\ services[s].last_fetch = None

\* A forced run is over; its Pictet service ended in a KeyError.
C28_Witness ==
    /\ RunOver /\ run.force
    /\ \E s \in ServiceIds :
          /\ services[s].service_type = "pictet"
          /\ log[s].outcome = "error" /\ log[s].cause = "KeyError"

\* ------------------------------------------ get_rates of the providers

\* What the Pictet API answers for one fund: a chart with a net asset value, a
\* query error of the transport, a chart without values, a value without the
\* fundAdjustedNav field.
PictetAnswers == {"nav", "query_error", "no_values", "no_nav"}

\* The net asset value of an answered chart.
NavRate == Dec(2, 0)

RECURSIVE PictetLoop(_, _, _, _, _)
\* The for loop of PictetProvider.get_rates over the targets still to read:
\* client.execute, result["fund"]["chart"]["values"], data[0]["fundAdjustedNav"].
PictetLoop(targets, exchange_currencies, exch, answer, out) ==
    IF targets = <<>> THEN [raised |-> "none", results |-> out]
    ELSE LET target == Head(targets) IN
         IF exch[target] \notin exchange_currencies
         THEN PictetLoop(Tail(targets), exchange_currencies, exch, answer, out)
         ELSE IF answer[target] = "query_error"
         THEN PictetLoop(Tail(targets), exchange_currencies, exch, answer, out)
         ELSE IF answer[target] = "no_values"
         THEN [raised |-> "IndexError", results |-> <<>>]
         ELSE IF answer[target] = "no_nav"
         THEN [raised |-> "KeyError", results |-> <<>>]
         ELSE PictetLoop(Tail(targets), exchange_currencies, exch, answer,
                         Append(out, <<exch[target], target, NavRate>>))

\* PictetProvider.get_rates(target_currencies, exchange_currencies), answer
\* being what the API says for each fund.
pictet_get_rates(target_currencies, exchange_currencies, exch, answer) ==
    PictetLoop(InIdOrder(target_currencies), exchange_currencies, exch, answer, <<>>)

\* The rows a table is made of: two usable rates and a rate of zero.
StoredRows ==
    {[from_currency |-> 1, to_currency |-> 2, rate |-> Dec(9, 0 - 1)],
     [from_currency |-> 1, to_currency |-> 3, rate |-> Dec(5, 0 - 1)],
     [from_currency |-> 3, to_currency |-> 4, rate |-> Dec(0, 0)]}

\* A row as it was entered by hand at date d.
Entered(row, d) == row @@ [date |-> d, automatic |-> FALSE]

\* A table of up to two different of these rows, entered one after the other.
StoredTables ==
    {<<>>}
    \cup {<<Entered(a, 1)>> : a \in StoredRows}
    \cup {<<Entered(p[1], 1), Entered(p[2], 2)>> :
             p \in {q \in StoredRows \X StoredRows : q[1] # q[2]}}

InitProviders ==
    /\ exchange_currency = CurrencyTable
    /\ rates \in StoredTables
    /\ found = NotSearched
    /\ results = NotFetched
    /\ NoRun
    /\ interval_str = <<>>
    /\ parsed = NotRun
    /\ cleaned = NotCleaned
    /\ service = [interval_type |-> "every", fetch_interval |-> <<"1">>,
                  last_fetch |-> None]
    /\ now = 0
    /\ should_fetch = NotEvaluated

\* The currencies that have an exchange currency, and the exchange currencies
\* of a set of them.
Quoted == {c \in Currencies : exchange_currency[c] # None}

ExchangeOf(targets) == {exchange_currency[c] : c \in targets}

\* A call of get_rates of the transitive provider for the targets.
TransitiveGetRates(targets) ==
    /\ results = NotFetched
    /\ results' = [provider |-> "transitive", targets |-> targets,
                   answer |-> <<>>,
                   ret |-> get_rates(targets, ExchangeOf(targets), rates,
                                     exchange_currency)]
    /\ UNCHANGED <<exchange_currency, rates, found, parse_vars, sched_vars, now,
                   run_vars>>

\* A call of get_rates of the Pictet provider for the targets, the API
\* answering each fund in one of its ways.
PictetGetRates(targets, answer) ==
    /\ results = NotFetched
    /\ results' = [provider |-> "pictet", targets |-> targets, answer |-> answer,
                   ret |-> pictet_get_rates(targets, ExchangeOf(targets),
                                            exchange_currency, answer)]
    /\ UNCHANGED <<exchange_currency, rates, found, parse_vars, sched_vars, now,
                   run_vars>>

NextProviders ==
    \/ \E targets \in SUBSET Quoted : TransitiveGetRates(targets)
    \/ \E targets \in SUBSET Quoted :
          \E answer \in [targets -> PictetAnswers] : PictetGetRates(targets, answer)

SpecProviders == InitProviders /\ [][NextProviders]_vars

\* --------------------------------------------------------------- C20

\* get_rates has returned or raised.
Called == results # NotFetched

\* C20: get_rates of a provider never raises for a failure that concerns one
\* pair: the pair is left out and the triples of the other pairs are returned.
C20_GetRatesNeverRaises ==
    Called =>
        /\ results.ret.raised = "none"
        /\ results.provider = "pictet" =>
              \A t \in results.targets :
                  results.answer[t] = "nav" =>
                      \E i \in 1..Len(results.ret.results) :
                          results.ret.results[i] = <<exchange_currency[t], t, NavRate>>

\* What the two providers do: Pictet's get_rates raises exactly when the
\* answer for a target has no values or no net asset value, the transitive
\* provider's exactly when the table holds a rate of zero; a query error of
\* the transport is the one failure that only leaves its pair out.
C20_RaisesOnBadAnswerOrZeroRate ==
    Called =>
        ((results.ret.raised # "none") <=>
            IF results.provider = "pictet"
            THEN \E t \in results.targets :
                    results.answer[t] \in {"no_values", "no_nav"}
            ELSE \E j \in 1..Len(rates) : rates[j].rate = Dec(0, 0))

\* Pictet answered fund 2 with a value and fund 3 with an empty chart: get_rates
\* raised and the triple of fund 2 is lost.
C20_Witness ==
    /\ Called /\ results.provider = "pictet"
    /\ results.targets = {2, 3}
    /\ results.answer[2] = "nav" /\ results.answer[3] = "no_values"
    /\ results.ret = [raised |-> "IndexError", results |-> <<>>]

\* ------------------------ concurrent calls of _fetch_service_rates

\* The services two calls run on at once: an upstream provider with its key
\* and one target, inverted or not, singleton or not.
RaceProfiles ==
    {Configured(type, TRUE, "every", <<"1">>, single, {c}, {}) :
        type \in {"coingecko_free", "twelvedata"}, single \in BOOLEAN, c \in {2, 4}}

\* The pair the triples of service svc are written under.
RacePair(svc) ==
    LET c == CHOOSE x \in svc.target_currencies : TRUE
    IN  StoredPair(svc, <<StoreTable[c], c, One>>)

\* Two callers (the scheduled task and a forced run, say) are about to call
\* _fetch_service_rates(service 1); the table is empty or has the rate a user
\* entered for the pair.
InitRace ==
    /\ \E p \in RaceProfiles :
          /\ services = [s \in ServiceIds |-> IF s = 1 THEN p ELSE DefaultService]
          /\ rates \in {<<>>,
                        <<[from_currency |-> RacePair(p)[1],
                           to_currency |-> RacePair(p)[2], rate |-> One,
                           date |-> 0, automatic |-> FALSE]>>}
    /\ workers = NoWorkers
    /\ run = Idle
    /\ log = [s \in ServiceIds |-> NotReached]
    /\ now = 0
    /\ exchange_currency = StoreTable
    /\ found = NotSearched
    /\ results = NotFetched
    /\ interval_str = <<>>
    /\ parsed = NotRun
    /\ cleaned = NotCleaned
    /\ service = [interval_type |-> "every", fetch_interval |-> <<"1">>,
                  last_fetch |-> None]
    /\ should_fetch = NotEvaluated

race_rest == <<run, log, exchange_currency, found, results, parse_vars, sched_vars>>

\* An hour passes.
RaceTick ==
    /\ now + SecondsPerHour <= MaxHours * SecondsPerHour
    /\ now' = now + SecondsPerHour
    /\ UNCHANGED <<services, rates, workers, race_rest>>

\* Caller w: _fetch_service_rates(service 1) up to the first triple of the
\* loop; without a triple the call ends here, with last_fetch set unless
\* get_rates raised.
RaceBegin(w) ==
    /\ workers[w].pc = "idle" /\ workers[w].n < MaxRuns
    /\ LET svc == services[1]
           pairs == _get_unique_currency_pairs(svc, exchange_currency)
       IN  \E out \in ProviderOutcomes(svc, pairs, rates, exchange_currency, now) :
              IF out.raised = "none" /\ out.results # <<>>
              THEN /\ workers' = [workers EXCEPT ![w].pc = "lookup",
                                                 ![w].n = @ + 1,
                                                 ![w].triple = out.results[1],
                                                 ![w].exchange_rate = 0]
                   /\ UNCHANGED services
              ELSE /\ workers' = [workers EXCEPT ![w].n = @ + 1]
                   /\ services' = IF out.raised # "none" THEN services
                                  ELSE [services EXCEPT ![1].last_fetch = now]
    /\ UNCHANGED <<rates, now, race_rest>>

\* Caller w: the query for the last automatic rate of the pair (the service
\* is a singleton), or exchange_rate = None.
RaceLookup(w) ==
    /\ workers[w].pc = "lookup"
    /\ LET svc == services[1]
           pair == StoredPair(svc, workers[w].triple)
           overlap == \E v \in WorkerIds \ {w} : workers[v].pc = "write"
       IN  workers' =
             [v \in WorkerIds |->
                 IF v = w
                 THEN [workers[w] EXCEPT
                          !.pc = "write",
                          !.exchange_rate =
                              IF svc.singleton
                              THEN LatestAutomatic(rates, pair[1], pair[2])
                              ELSE 0,
                          !.raced = @ \/ overlap]
                 ELSE [workers[v] EXCEPT !.raced = @ \/ overlap]]
    /\ UNCHANGED <<services, rates, now, race_rest>>

\* Caller w: the create or the update the lookup decided on, then the end of
\* the loop and last_fetch; an exception ends the call.
RaceWrite(w) ==
    /\ workers[w].pc = "write"
    /\ LET svc == services[1]
           pair == StoredPair(svc, workers[w].triple)
           rate == workers[w].triple[3]
           written == IF workers[w].exchange_rate = 0
                      THEN Create(rates, pair[1], pair[2], rate, now)
                      ELSE Save(rates, workers[w].exchange_rate, rate, now)
       IN  /\ Len(written.rows) <= MaxRates
           /\ rates' = written.rows
           /\ services' = IF written.raised # "none" THEN services
                          ELSE [services EXCEPT ![1].last_fetch = now]
    /\ workers' = [workers EXCEPT ![w].pc = "idle", ![w].triple = <<>>,
                                  ![w].exchange_rate = 0]
    /\ UNCHANGED <<now, race_rest>>

NextRace ==
    \/ RaceTick
    \/ \E w \in WorkerIds : RaceBegin(w)
    \/ \E w \in WorkerIds : RaceLookup(w)
    \/ \E w \in WorkerIds : RaceWrite(w)

SpecRace == InitRace /\ [][NextRace]_vars

\* ------------------------------------------------------------------ C25

\* The automatic rows of the pair of the service.
RaceRows == AutomaticFor(rates, RacePair(services[1]))

Raced == \E w \in WorkerIds : workers[w].raced

\* C25: a singleton service has two automatic rows for its pair only after a
\* lookup of one call fell between the lookup and the write of the other;
\* calls that follow one another leave at most one.
C25_TwoRowsOnlyWhenInterleaved ==
    (services[1].singleton /\ Cardinality(RaceRows) >= 2) => Raced

\* Two calls on a singleton service both looked up the pair in a table without
\* an automatic row and each created one.
C25_Witness ==
    /\ services[1].singleton
    /\ Cardinality(RaceRows) = 2
    /\ \A w \in WorkerIds : workers[w].pc = "idle" /\ workers[w].n = 1
    /\ Raced

\* ------------------------------- a transitive service run again and again

\* The transitive services that are run: two targets, singleton or not.
RepeatProfiles ==
    {Configured("transitive", FALSE, "every", <<"1">>, single, {2, 3}, {}) :
        single \in BOOLEAN}

\* The pairs users enter rates for: a currency and its exchange currency, in
\* either direction.
EnteredPairs == {<<1, 2>>, <<2, 1>>, <<1, 3>>, <<3, 1>>}

\* No cycle since the table was last edited by hand.
NoCycle == [raised |-> "notrun", yielded |-> <<>>, stored |-> {}]

InitRepeat ==
    /\ \E p \in RepeatProfiles :
          services = [s \in ServiceIds |-> IF s = 1 THEN p ELSE DefaultService]
    /\ rates = <<>>
    /\ results = NoCycle
    /\ run = Idle
    /\ workers = NoWorkers
    /\ log = [s \in ServiceIds |-> NotReached]
    /\ now = 0
    /\ exchange_currency = CurrencyTable
    /\ found = NotSearched
    /\ interval_str = <<>>
    /\ parsed = NotRun
    /\ cleaned = NotCleaned
    /\ service = [interval_type |-> "every", fetch_interval |-> <<"1">>,
                  last_fetch |-> None]
    /\ should_fetch = NotEvaluated

repeat_rest == <<log, workers, exchange_currency, found, parse_vars, sched_vars>>

\* An hour passes.
RepeatTick ==
    /\ now + SecondsPerHour <= MaxHours * SecondsPerHour
    /\ now' = now + SecondsPerHour
    /\ UNCHANGED <<services, rates, results, run, repeat_rest>>

\* A user enters a rate from f to t, dated now; the users have done with the
\* table before the service is first run.
EnterRate(f, t) ==
    /\ run.n = 0
    /\ Len(rates) < MaxRates
    /\ ~Collides(rates, 0, f, t, now)
    /\ rates' = Append(rates, [from_currency |-> f, to_currency |-> t,
                               rate |-> RateAt(Len(rates) + 1),
                               date |-> now, automatic |-> FALSE])
    /\ results' = NoCycle
    /\ UNCHANGED <<services, now, run, repeat_rest>>

RECURSIVE StoreFrom(_, _, _, _, _)
\* The loop of _fetch_service_rates over the triples still to read, at time t:
\* the table it leaves, the exception that ended it, and the rate it stored
\* for each pair.
StoreFrom(svc, rows, triples, acc, t) ==
    IF triples = <<>> THEN [raised |-> "none", rows |-> rows, stored |-> acc.stored]
    ELSE LET w == ProcessTriple(rows, Head(triples),
                                rates_inverted(svc.service_type), svc.singleton,
                                acc.processed_pairs, t)
         IN  IF w.raised # "none"
             THEN [raised |-> w.raised, rows |-> rows, stored |-> acc.stored]
             ELSE StoreFrom(svc, w.rows, Tail(triples),
                            [processed_pairs |-> w.processed_pairs,
                             stored |-> IF w.at = 0 THEN acc.stored
                                        ELSE acc.stored \cup
                                             {<<StoredPair(svc, Head(triples)),
                                                Head(triples)[3]>>}],
                            t)

\* As StoreAll, but inside a transaction: an exception takes back what the
\* loop wrote before it.
StoreAll_Rollback(svc, rows, triples, t) ==
    LET done == StoreFrom(svc, rows, triples,
                          [processed_pairs |-> {}, stored |-> {}], t)
    IN  IF done.raised # "none" THEN [done EXCEPT !.rows = rows] ELSE done

\* The whole loop over the triples get_rates returned, processed_pairs being
\* empty before the first.
StoreAll(svc, rows, triples, t) ==
    StoreFrom(svc, rows, triples, [processed_pairs |-> {}, stored |-> {}], t)

\* _fetch_service_rates(service 1), forced: get_rates over the whole table,
\* the loop over its triples, last_fetch.
TransitiveCycle ==
    /\ run.n < MaxRuns
    /\ LET svc == services[1]
           pairs == _get_unique_currency_pairs(svc, exchange_currency)
           out == get_rates(pairs.target_currencies, pairs.exchange_currencies,
                            rates, exchange_currency)
           done == StoreAll(svc, rates, out.results, now)
       IN  /\ Len(done.rows) <= MaxRates
           /\ rates' = done.rows
           /\ results' = [raised |-> IF out.raised # "none" THEN out.raised
                                     ELSE done.raised,
                          yielded |-> out.results, stored |-> done.stored]
           /\ services' = IF out.raised # "none" \/ done.raised # "none"
                          THEN services
                          ELSE [services EXCEPT ![1].last_fetch = now]
    /\ run' = [run EXCEPT !.n = @ + 1]
    /\ UNCHANGED <<now, repeat_rest>>

NextRepeat ==
    \/ RepeatTick
    \/ \E p \in EnteredPairs : EnterRate(p[1], p[2])
    \/ TransitiveCycle

SpecRepeat == InitRepeat /\ [][NextRepeat]_vars

\* ------------------------------------------------------------------ C27

\* C27 as claimed: a cycle of the transitive service that follows another with
\* no rate entered in between stores, for every pair both stored, the rate the
\* earlier one stored.
C27_RepeatedCyclesAgree ==
    [][\A a \in results.stored, b \in results'.stored :
          a[1] = b[1] => a[2] = b[2]]_vars

\* ------------------------------------------------------------------ C30

\* The times of the clock from now on.
LaterTimes ==
    {t \in now..(MaxHours * SecondsPerHour) : (t - now) % SecondsPerHour = 0}

\* C30: when a cycle ends in an exception, the rows it wrote before are in the
\* table as written, last_fetch (as every field of the service) is as it was,
\* and a service that was due in EVERY mode is due at every later time.
C30_RaiseKeepsRowsAndLastFetch ==
    [][(run'.n # run.n /\ results'.raised # "none") =>
          /\ services' = services
          /\ \A w \in results'.stored :
                \E j \in 1..Len(rates') :
                    /\ rates'[j].automatic
                    /\ <<rates'[j].from_currency, rates'[j].to_currency>> = w[1]
                    /\ rates'[j].rate = w[2]
                    /\ rates'[j].date = now
          /\ \A j \in 1..Len(rates) :
                ~rates[j].automatic => rates'[j] = rates[j]
          /\ (services[1].interval_type = "every"
                /\ _should_fetch_at_hour(services[1], HourOfDay(now), now)
                       = Returns(TRUE)) =>
                \A t \in LaterTimes :
                    _should_fetch_at_hour(services'[1], HourOfDay(t), t)
                        = Returns(TRUE)]_vars

\* A cycle wrote the rate of one pair and was ended by the IntegrityError of
\* the next write; the service has never been stamped.
C30_Witness ==
    /\ results.raised = "IntegrityError"
    /\ results.stored # {}
    /\ \E j \in 1..Len(rates) : rates[j].automatic /\ rates[j].date = now
    /\ services[1].last_fetch = None
    /\ run.n = 1

\* ------------------------------------------------------------------ C31

\* The pairs the triples of the last cycle resolve to.
ResolvedPairs(svc, yielded) ==
    {StoredPair(svc, yielded[i]) : i \in 1..Len(yielded)}

\* C31: a fetch cycle deletes no row, leaves every row with automatic = false
\* as it is, changes only rows of a pair that a triple of the cycle resolves
\* to (and of these only rate and date), and creates automatic rows only.
C31_CycleFrame ==
    [][run'.n # run.n =>
          /\ Len(rates') >= Len(rates)
          /\ \A j \in 1..Len(rates) :
                /\ ~rates[j].automatic => rates'[j] = rates[j]
                /\ rates'[j] # rates[j] =>
                      /\ <<rates[j].from_currency, rates[j].to_currency>>
                             \in ResolvedPairs(services[1], results'.yielded)
                      /\ rates'[j] = [rates[j] EXCEPT !.rate = rates'[j].rate,
                                                      !.date = rates'[j].date]
          /\ \A j \in (Len(rates) + 1)..Len(rates') :
                /\ rates'[j].automatic
                /\ <<rates'[j].from_currency, rates'[j].to_currency>>
                       \in ResolvedPairs(services[1], results'.yielded)]_vars

\* The second cycle of a singleton service has rewritten its own row of a
\* pair, in a table where a user's row of that same pair stands as entered.
C31_Witness ==
    /\ run.n = 2 /\ services[1].singleton
    /\ results.raised = "none" /\ results.stored # {}
    /\ \E i, j \in 1..Len(rates) :
          /\ ~rates[i].automatic /\ rates[j].automatic
          /\ <<rates[i].from_currency, rates[i].to_currency>>
                 = <<rates[j].from_currency, rates[j].to_currency>>
          /\ rates[i].rate = RateAt(i) /\ rates[i].date < rates[j].date
          /\ rates[j].date = now

====
